---- MODULE Spec2Model ----
(***************************************************************************)
(* Verification model of the breakpad-handler crash capture core.          *)
(*                                                                         *)
(* Part 1: the signal dispatcher of linux/handler.rs (attach, detach,      *)
(*         simulate_signal, signal_handler, handle_signal, generate_dump   *)
(*         and the cloned helper).                                         *)
(* Part 2: BreakpadHandler of breakpad-handler/src/lib.rs.                 *)
(* Part 3: MinidumpWriter::dump over FileWriter.                           *)
(*                                                                         *)
(* Option<T> values are sequences: << >> is None and <<v>> is Some(v).     *)
(* A mutex is the id of the thread holding it, 0 when free.  A critical    *)
(* section is an acquire step followed by a body step that also releases,  *)
(* so a signal can reach a thread while it holds the lock.                 *)
(* sigaction, sigaltstack and munmap are called with valid arguments only  *)
(* and are modelled as succeeding; mmap, pipe, clone, tgkill and waitpid   *)
(* may fail.                                                               *)
(***************************************************************************)
EXTENDS Integers, Sequences, FiniteSets, TLC

\* ------------------------------------------------------------------ bounds
NumThreads == 2
\* handlers that may be created: with signals and dumps, without them
MaxCrashHandlers == 1
MaxHandlers == 2
MaxDeliveries == 1

Threads == 1..NumThreads
Handlers == 1..MaxHandlers

\* ------------------------------------------------------- program constants
SIGILL == 4
SIGTRAP == 5
SIGABRT == 6
SIGBUS == 7
SIGFPE == 8
SIGSEGV == 11
SI_USER == 0
SI_TKILL == -6
SS_DISABLE == 2
MIN_STACK_SIZE == 16 * 1024

EXCEPTION_SIGNALS == <<SIGSEGV, SIGABRT, SIGFPE, SIGILL, SIGBUS, SIGTRAP>>

SignalSet == {EXCEPTION_SIGNALS[i] : i \in 1..Len(EXCEPTION_SIGNALS)}

\* signals and si_code values the environment delivers in the model; 1 is
\* the si_code of a hardware fault (SEGV_MAPERR)
DeliveredSignals == {SIGSEGV, SIGABRT}
SiCodes == {SI_TKILL, SI_USER, 1}

\* dispositions: the kernel default, a handler some other code installed
\* before attach, signal_handler with SA_SIGINFO, and signal_handler put
\* back by the one-argument signal() API (SA_SIGINFO lost)
OwnDispositions == {"OURS", "OURS_LEGACY"}

None == << >>
Some(v) == <<v>>

VARIABLES
    alive,          \* the process has not been terminated
    exitStatus,     \* 0 while alive, 1 after _exit(1), 128 + sig when killed
    disp,           \* kernel table: signal -> disposition
    origDisp,       \* the dispositions in force before any attach
    origStack,      \* per thread: the alternate stack before any attach
    altStack,       \* kernel, per thread: the alternate signal stack
    mapped,         \* ids of the alternate-stack mappings still mapped
    guards,         \* ids of the mappings whose guard page is still mapped
    STACK_SAVE,
    OLD_HANDLERS, ohLock,
    HANDLER_STACK, hsLock,
    ccLock,         \* the mutex of CRASH_CONTEXT
    hstate,         \* handler slot -> unused / attaching / live / detaching
    hasCb,          \* handler id -> on_crash is Some
    pc, opH, opAgain,   \* per thread: the API call in progress
    spc, ssig, scode, sidx, shandled,     \* per thread: the signal_handler frame
    skill,          \* per thread: what signal_handler did to re-raise
    deliveries,     \* signals delivered so far, a repaired delivery not counted
    maxH,           \* the number of handlers this run may create
    gd,             \* the generate_dump call in progress (CRASH_CONTEXT holder)
    helper,         \* the cloned helper
    cbCount,        \* on_crash invocations of the current handle_signal call
    cbAfterExit     \* the helper had exited at every on_crash invocation

kernelVars == <<alive, exitStatus, disp, origDisp, origStack, altStack, mapped,
               guards>>
lockVars == <<STACK_SAVE, OLD_HANDLERS, ohLock, HANDLER_STACK, hsLock, ccLock>>
apiVars == <<hstate, hasCb, pc, opH, opAgain>>
sigVars == <<spc, ssig, scode, sidx, shandled, skill, deliveries>>
dumpVars == <<gd, helper, cbCount, cbAfterExit>>
dispatcherVars == <<kernelVars, lockVars, apiVars, sigVars, dumpVars>>

cfgVars == <<maxH>>

\* Part 2
VARIABLES
    HANDLER_ATTACHED,   \* the AtomicBool of lib.rs:19
    bhPc,               \* per client thread: idle / refused / attaching /
                        \* attached / dropping
    sysHandlers         \* exception handlers alive inside breakpad_sys

bhVars == <<HANDLER_ATTACHED, bhPc, sysHandlers>>

\* Part 3
VARIABLES
    mdPc,           \* the step MinidumpWriter::dump is at
    mdResult,       \* none while running, then Err or Panic
    mdThreads,      \* the number of threads the dumper lists
    fw,             \* the FileWriter: page_size, pos, len
    fileLen,        \* the length of the file
    extents,        \* the writes the file received, in order
    reservations,   \* the Reservations handed out, in order
    flushed,        \* flush() has returned Ok
    header,         \* the Header value written
    dirEntries      \* the indices of the directory entries written

mdVars == <<mdPc, mdResult, mdThreads, fw, fileLen, extents, reservations,
            flushed, header, dirEntries>>

\* Part 4
VARIABLES
    handles         \* the MDItem / MDArray / MDHeaderArray values handed out,
                    \* handles[i] holding reservations[i]

fwApiVars == <<handles>>

\* Part 5
VARIABLES
    pa,             \* the PageAllocator: last, current_page,
                    \* total_allocated_pages
    headers,        \* memory: address of a block -> the PageHeader there
    regions,        \* the regions alloc_raw returned, in order
    paResult,       \* the result of the latest alloc_raw call
    paCalls         \* alloc_raw calls made

paVars == <<pa, headers, regions, paResult, paCalls>>

\* Part 6
VARIABLES
    vec,            \* the PageVec: buf (the slots of its RawVec), len, and
                    \* status, Ok until the process aborts
    refSeq,         \* the reference sequence run beside it
    vecRet,         \* what the latest PageVec call returned
    refRet          \* what the reference returned

vecVars == <<vec, refSeq, vecRet, refRet>>

\* Part 7
VARIABLES
    dumper,         \* the PTraceDumper: threads, threads_suspended
    attached,       \* kernel: the threads this process traces
    tr              \* the suspend_threads / resume_threads call: pc, idx,
                    \* all_threads_resumed, its result, and for the call
                    \* in progress the detaches issued, those that failed,
                    \* why each dropped thread was dropped and the threads
                    \* traced when it began

tracerVars == <<dumper, attached, tr>>

\* Part 8
VARIABLES
    inner,          \* the reader a LineReader reads from: its data and how
                    \* much of it read() has handed over
    reader,         \* the LineReader: buf, cursor, filled, eof
    it              \* the iteration: where the call of next() stands, the
                    \* lines yielded, the calls that returned None, whether
                    \* a read failed

linesVars == <<inner, reader, it>>

\* Part 9
VARIABLES
    elf,            \* the images handed to from_mapped_file
    elfId           \* what from_mapped_file returned for each

elfVars == <<elf, elfId>>

\* Part 10
VARIABLES
    maps            \* enumerate_mappings: the lines of the maps file, how
                    \* many were taken, the mappings kept, what the latest
                    \* line parsed to, and the two auxv entries used

mapsVars == <<maps>>

\* Part 11
VARIABLES
    tlist           \* write_thread_list: the settings and the position of
                    \* the file it starts from, the limit it worked out,
                    \* its counter and the thread it wrote last

tlistVars == <<tlist>>

\* Part 12
VARIABLES
    stk,            \* get_stack_info: the mappings, the stack pointer asked
                    \* about and the answer
    san             \* sanitize_stack: the mappings, the words and the
                    \* trailing bytes of the buffer, the address and the
                    \* offset passed, and where its scan is

stackVars == <<stk, san>>

\* Part 13
VARIABLES
    ax              \* PTraceDumper::init: where it is, the auxv table, the
                    \* entries of /proc/<pid>/auxv and how many were read,
                    \* the index used last and the result

auxvVars == <<ax>>

extVars == <<fwApiVars, paVars, vecVars, tracerVars, linesVars, elfVars, mapsVars,
             tlistVars, stackVars, auxvVars>>

vars == <<dispatcherVars, cfgVars, bhVars, mdVars, extVars>>

\* ---------------------------------------------------------- alt stack
DisabledStack == [ss_sp |-> 0, ss_flags |-> SS_DISABLE, ss_size |-> 0]
\* stacks some other code registered before attach (ss_sp below zero)
SmallStack == [ss_sp |-> -1, ss_flags |-> 0, ss_size |-> 8 * 1024]
AdequateStack == [ss_sp |-> -2, ss_flags |-> 0, ss_size |-> 16 * 1024]
\* the stack attach maps itself; m names the mapping (handler.rs:76-80)
OwnStack(m) == [ss_sp |-> m, ss_flags |-> 0, ss_size |-> MIN_STACK_SIZE]

\* addresses mmap can return: one more than the threads can keep registered
Mappings == 1..(NumThreads + 1)

InitialStacks == {DisabledStack, SmallStack, AdequateStack}

\* handler.rs:40
StackIsAdequate(old_stack) ==
    old_stack.ss_flags # SS_DISABLE /\ old_stack.ss_size >= MIN_STACK_SIZE

NoGd == [pc |-> "none", t |-> 0, frame |-> "none", h |-> 0, pipeOk |-> FALSE,
         pipeData |-> 0, ptracer |-> FALSE, success |-> FALSE]
NoHelper == [pc |-> "none"]

\* The process before the first attach: n handlers may be created, each
\* thread's alternate stack is one of `stacks`, and one signal of `users` has
\* a handler of other code (none when `users` is {0}).
InitDispatcher(n, stacks, users) ==
    /\ maxH = n
    /\ alive = TRUE
    /\ exitStatus = 0
    /\ origDisp \in {[s \in SignalSet |-> IF s = u THEN "USER" ELSE "SIG_DFL"] :
                        u \in users}
    /\ disp = origDisp
    /\ altStack \in [Threads -> stacks]
    /\ origStack = altStack
    /\ mapped = {}
    /\ guards = {}
    /\ STACK_SAVE = None
    /\ OLD_HANDLERS = None
    /\ ohLock = 0
    /\ HANDLER_STACK = << >>
    /\ hsLock = 0
    /\ ccLock = 0
    /\ hstate = [h \in Handlers |-> "unused"]
    /\ hasCb = [h \in Handlers |-> FALSE]
    /\ pc = [t \in Threads |-> "idle"]
    /\ opH = [t \in Threads |-> 0]
    /\ opAgain = [t \in Threads |-> FALSE]
    /\ spc = [t \in Threads |-> "none"]
    /\ ssig = [t \in Threads |-> 0]
    /\ scode = [t \in Threads |-> 0]
    /\ sidx = [t \in Threads |-> 0]
    /\ shandled = [t \in Threads |-> FALSE]
    /\ skill = [t \in Threads |-> "none"]
    /\ deliveries = 0
    /\ gd = NoGd
    /\ helper = NoHelper
    /\ cbCount = 0
    /\ cbAfterExit = TRUE

\* A thread runs its API call only while no signal handler frame is on top
\* of it.
MainRuns(t) == alive /\ spc[t] = "none"

\* ------------------------------------------------ attach (handler.rs:702)
\* install_sigaltstack, handler.rs:28-95: the thread's alternate stack after
\* the call
InstalledStack(old_stack, m) ==
    IF StackIsAdequate(old_stack) THEN old_stack ELSE OwnStack(m)

\* handler.rs:89-92: the record left in STACK_SAVE
SavedStack(old_stack, m) ==
    [old |-> IF old_stack.ss_flags = SS_DISABLE THEN Some(old_stack) ELSE None,
     new |-> OwnStack(m)]

\* mmap returns an address that is not mapped; the model keeps it apart from
\* the addresses still registered as some thread's alternate stack and, the
\* addresses being interchangeable, takes the lowest one
FreeMappings ==
    Mappings \ (mapped \cup {altStack[u].ss_sp : u \in Threads})

\* ExceptionHandler::attach up to the end of install_sigaltstack.  m is the
\* address mmap returns, 0 for MAP_FAILED: the call is then about to return
\* Err(OutOfMemory) with nothing registered (pc "at_oom").
Attach(t, h, cb, m) ==
    /\ MainRuns(t)
    /\ pc[t] = "idle"
    /\ hstate[h] = "unused"
    /\ h <= maxH
    /\ \A g \in Handlers : g < h => hstate[g] # "unused"
    /\ \A k \in FreeMappings : m <= k
    /\ IF StackIsAdequate(altStack[t])
       THEN /\ m = 0
            /\ UNCHANGED <<altStack, mapped, guards, STACK_SAVE>>
            /\ pc' = [pc EXCEPT ![t] = "at_ih_lock"]
            /\ hstate' = [hstate EXCEPT ![h] = "attaching"]
       ELSE IF m # 0
       THEN /\ m \in FreeMappings
            /\ altStack' = [altStack EXCEPT ![t] = InstalledStack(altStack[t], m)]
            /\ mapped' = mapped \cup {m}
            /\ guards' = guards \cup {m}
            /\ STACK_SAVE' = Some(SavedStack(altStack[t], m))
            /\ pc' = [pc EXCEPT ![t] = "at_ih_lock"]
            /\ hstate' = [hstate EXCEPT ![h] = "attaching"]
       ELSE /\ pc' = [pc EXCEPT ![t] = "at_oom"]
            /\ UNCHANGED <<altStack, mapped, guards, STACK_SAVE, hstate>>
    /\ opH' = [opH EXCEPT ![t] = IF pc'[t] = "at_oom" THEN 0 ELSE h]
    /\ hasCb' = [hasCb EXCEPT ![h] = cb /\ pc'[t] # "at_oom"]
    /\ UNCHANGED <<alive, exitStatus, disp, origDisp, origStack, OLD_HANDLERS, ohLock,
                   HANDLER_STACK, hsLock, ccLock, opAgain,
                   sigVars, dumpVars>>
    /\ UNCHANGED <<cfgVars, bhVars, mdVars, extVars>>

\* attach returns Err(OutOfMemory), handler.rs:707
AttachFail(t) ==
    /\ MainRuns(t)
    /\ pc[t] = "at_oom"
    /\ pc' = [pc EXCEPT ![t] = "idle"]
    /\ UNCHANGED <<kernelVars, lockVars, hstate, hasCb, opH, opAgain, sigVars,
                   dumpVars>>
    /\ UNCHANGED <<cfgVars, bhVars, mdVars, extVars>>

\* install_handlers, handler.rs:189: OLD_HANDLERS.lock()
AttachInstallLock(t) ==
    /\ MainRuns(t)
    /\ pc[t] = "at_ih_lock"
    /\ ohLock = 0
    /\ ohLock' = t
    /\ pc' = [pc EXCEPT ![t] = "at_ih_body"]
    /\ UNCHANGED <<kernelVars, STACK_SAVE, OLD_HANDLERS, HANDLER_STACK, hsLock,
                   ccLock, hstate, hasCb, opH, opAgain,
                   sigVars, dumpVars>>
    /\ UNCHANGED <<cfgVars, bhVars, mdVars, extVars>>

\* install_handlers, handler.rs:191-226: the kernel table after the call
InstalledDispositions(ohl, d) ==
    IF ohl # None THEN d ELSE [s \in SignalSet |-> "OURS"]

\* install_handlers, handler.rs:191-231: the saved table after the call
InstalledOldHandlers(ohl, d) ==
    IF ohl # None THEN ohl ELSE Some(d)

AttachInstallBody(t) ==
    /\ MainRuns(t)
    /\ pc[t] = "at_ih_body"
    /\ disp' = InstalledDispositions(OLD_HANDLERS, disp)
    /\ OLD_HANDLERS' = InstalledOldHandlers(OLD_HANDLERS, disp)
    /\ ohLock' = 0
    /\ pc' = [pc EXCEPT ![t] = "at_push_lock"]
    /\ UNCHANGED <<alive, exitStatus, origDisp, origStack, altStack, mapped, guards, STACK_SAVE,
                   HANDLER_STACK, hsLock, ccLock, hstate, hasCb,
                   opH, opAgain, sigVars, dumpVars>>
    /\ UNCHANGED <<cfgVars, bhVars, mdVars, extVars>>

\* attach, handler.rs:714: HANDLER_STACK.lock()
AttachPushLock(t) ==
    /\ MainRuns(t)
    /\ pc[t] = "at_push_lock"
    /\ hsLock = 0
    /\ hsLock' = t
    /\ pc' = [pc EXCEPT ![t] = "at_push"]
    /\ UNCHANGED <<kernelVars, STACK_SAVE, OLD_HANDLERS, ohLock, HANDLER_STACK,
                   ccLock, hstate, hasCb, opH, opAgain,
                   sigVars, dumpVars>>
    /\ UNCHANGED <<cfgVars, bhVars, mdVars, extVars>>

\* attach, handler.rs:715-718
AttachPush(t) ==
    /\ MainRuns(t)
    /\ pc[t] = "at_push"
    /\ HANDLER_STACK' = Append(HANDLER_STACK, opH[t])
    /\ hsLock' = 0
    /\ hstate' = [hstate EXCEPT ![opH[t]] = "live"]
    /\ pc' = [pc EXCEPT ![t] = "idle"]
    /\ opH' = [opH EXCEPT ![t] = 0]
    /\ UNCHANGED <<kernelVars, STACK_SAVE, OLD_HANDLERS, ohLock, ccLock, hasCb, opAgain, sigVars, dumpVars>>
    /\ UNCHANGED <<cfgVars, bhVars, mdVars, extVars>>

\* --------------------------------------- detach / drop (handler.rs:721-783)
\* Weak::upgrade succeeds while the Arc of the handler is alive
Upgrades(h) == hstate[h] \in {"attaching", "live", "detaching"}

\* handler.rs:728-732: index of the handler in the registry, 0 when absent
Position(stack, h) ==
    IF \E i \in 1..Len(stack) : stack[i] = h /\ Upgrades(stack[i])
    THEN CHOOSE i \in 1..Len(stack) :
            /\ stack[i] = h /\ Upgrades(stack[i])
            /\ \A j \in 1..(i - 1) : ~(stack[j] = h /\ Upgrades(stack[j]))
    ELSE 0

RemoveAt(stack, i) == SubSeq(stack, 1, i - 1) \o SubSeq(stack, i + 1, Len(stack))

\* a simulate_signal call borrows the handler, so it cannot be moved into
\* detach or dropped meanwhile
Borrowed(h) == \E u \in Threads : pc[u] \in {"sim_cc_lock", "sim_in_gd"} /\ opH[u] = h

\* detach(self) runs do_detach and then drops self, which runs do_detach
\* again (explicit = TRUE); a plain drop runs it once.
Detach(t, h, explicit) ==
    /\ MainRuns(t)
    /\ pc[t] = "idle"
    /\ hstate[h] = "live"
    /\ ~Borrowed(h)
    /\ hstate' = [hstate EXCEPT ![h] = "detaching"]
    /\ opH' = [opH EXCEPT ![t] = h]
    /\ opAgain' = [opAgain EXCEPT ![t] = explicit]
    /\ pc' = [pc EXCEPT ![t] = "dt_lock"]
    /\ UNCHANGED <<kernelVars, lockVars, hasCb, sigVars, dumpVars>>
    /\ UNCHANGED <<cfgVars, bhVars, mdVars, extVars>>

\* do_detach, handler.rs:726: HANDLER_STACK.lock()
DetachLock(t) ==
    /\ MainRuns(t)
    /\ pc[t] = "dt_lock"
    /\ hsLock = 0
    /\ hsLock' = t
    /\ pc' = [pc EXCEPT ![t] = "dt_body"]
    /\ UNCHANGED <<kernelVars, STACK_SAVE, OLD_HANDLERS, ohLock, HANDLER_STACK,
                   ccLock, hstate, hasCb, opH, opAgain,
                   sigVars, dumpVars>>
    /\ UNCHANGED <<cfgVars, bhVars, mdVars, extVars>>

\* the end of one do_detach: the drop that follows an explicit detach, or
\* the end of the handler's life (its slot can be used by a later attach)
AfterDoDetach(t) ==
    IF opAgain[t]
    THEN /\ pc' = [pc EXCEPT ![t] = "dt_lock"]
         /\ opAgain' = [opAgain EXCEPT ![t] = FALSE]
         /\ UNCHANGED <<hstate, hasCb, opH>>
    ELSE /\ pc' = [pc EXCEPT ![t] = "idle"]
         /\ hstate' = [hstate EXCEPT ![opH[t]] = "unused"]
         /\ hasCb' = [hasCb EXCEPT ![opH[t]] = FALSE]
         /\ opH' = [opH EXCEPT ![t] = 0]
         /\ UNCHANGED opAgain

\* restore_sigaltstack, handler.rs:108-125: the calling thread's alternate
\* stack after the call
StackAfterRestore(ss, current_stack) ==
    IF current_stack.ss_sp = ss.new.ss_sp
    THEN IF ss.old # None THEN ss.old[1] ELSE DisabledStack
    ELSE current_stack

\* do_detach, handler.rs:735: restore only when the registry became empty
ShouldRestore_always(handlers) == TRUE
ShouldRestore(handlers) == handlers = << >>

\* do_detach, handler.rs:728-737, with restore_sigaltstack (handler.rs:97-131);
\* munmap is given the stack (ss.new.ss_sp, ss.new.ss_size), not the guard
\* page mapped in front of it
DetachBody(t) ==
    /\ MainRuns(t)
    /\ pc[t] = "dt_body"
    /\ LET ind == Position(HANDLER_STACK, opH[t])
           handlers == IF ind = 0 THEN HANDLER_STACK ELSE RemoveAt(HANDLER_STACK, ind)
       IN /\ HANDLER_STACK' = handlers
          /\ IF ind # 0 /\ ShouldRestore(handlers)
             THEN /\ IF STACK_SAVE # None
                     THEN /\ altStack' = [altStack EXCEPT
                                 ![t] = StackAfterRestore(STACK_SAVE[1], altStack[t])]
                          /\ mapped' = mapped \ {STACK_SAVE[1].new.ss_sp}
                          /\ UNCHANGED guards
                          /\ STACK_SAVE' = None
                     ELSE UNCHANGED <<altStack, mapped, guards, STACK_SAVE>>
                  /\ pc' = [pc EXCEPT ![t] = "dt_rh_lock"]
                  /\ UNCHANGED <<hsLock, hstate, hasCb, opH, opAgain>>
             ELSE /\ hsLock' = 0
                  /\ AfterDoDetach(t)
                  /\ UNCHANGED <<altStack, mapped, guards, STACK_SAVE>>
    /\ UNCHANGED <<alive, exitStatus, disp, origDisp, origStack, OLD_HANDLERS, ohLock,
                   ccLock, sigVars, dumpVars>>
    /\ UNCHANGED <<cfgVars, bhVars, mdVars, extVars>>

\* restore_handlers, handler.rs:175: OLD_HANDLERS.lock()
DetachRestoreLock(t) ==
    /\ MainRuns(t)
    /\ pc[t] = "dt_rh_lock"
    /\ ohLock = 0
    /\ ohLock' = t
    /\ pc' = [pc EXCEPT ![t] = "dt_rh_body"]
    /\ UNCHANGED <<kernelVars, STACK_SAVE, OLD_HANDLERS, HANDLER_STACK, hsLock,
                   ccLock, hstate, hasCb, opH, opAgain,
                   sigVars, dumpVars>>
    /\ UNCHANGED <<cfgVars, bhVars, mdVars, extVars>>

\* restore_handlers, handler.rs:177-183: the kernel table after the call
RestoredDispositions(ohl, d) ==
    IF ohl # None THEN [s \in SignalSet |-> ohl[1][s]] ELSE d

\* restore_handlers (handler.rs:174-186) as the tail of do_detach
DetachRestoreBody(t) ==
    /\ MainRuns(t)
    /\ pc[t] = "dt_rh_body"
    /\ disp' = RestoredDispositions(OLD_HANDLERS, disp)
    /\ OLD_HANDLERS' = None
    /\ ohLock' = 0
    /\ hsLock' = 0
    /\ AfterDoDetach(t)
    /\ UNCHANGED <<alive, exitStatus, origDisp, origStack, altStack, mapped, guards, STACK_SAVE,
                   HANDLER_STACK, ccLock,
                   sigVars, dumpVars>>
    /\ UNCHANGED <<cfgVars, bhVars, mdVars, extVars>>

AttachDetachNext ==
    \/ \E t \in Threads, h \in Handlers, cb \in BOOLEAN, m \in {0} \cup Mappings :
          Attach(t, h, cb, m)
    \/ \E t \in Threads : AttachFail(t)
    \/ \E t \in Threads : AttachInstallLock(t)
    \/ \E t \in Threads : AttachInstallBody(t)
    \/ \E t \in Threads : AttachPushLock(t)
    \/ \E t \in Threads : AttachPush(t)
    \/ \E t \in Threads, h \in Handlers, explicit \in BOOLEAN : Detach(t, h, explicit)
    \/ \E t \in Threads : DetachLock(t)
    \/ \E t \in Threads : DetachBody(t)
    \/ \E t \in Threads : DetachRestoreLock(t)
    \/ \E t \in Threads : DetachRestoreBody(t)

\* ------------------------------ handle_signal / generate_dump (472-652)
\* handle_signal is entered by simulate_signal on the thread's own frame
\* ("main") and by signal_handler on the signal frame ("sig").
FrameWaitsForContext(t, frame) ==
    IF frame = "main" THEN MainRuns(t) /\ pc[t] = "sim_cc_lock"
    ELSE alive /\ spc[t] = "sh_cc_lock"

\* simulate_signal, handler.rs:761-776; handle_signal ignores the signal number
Simulate(t, h, sig) ==
    /\ MainRuns(t)
    /\ pc[t] = "idle"
    /\ hstate[h] = "live"
    /\ pc' = [pc EXCEPT ![t] = "sim_cc_lock"]
    /\ opH' = [opH EXCEPT ![t] = h]
    /\ UNCHANGED <<kernelVars, lockVars, hstate, hasCb, opAgain,
                   sigVars, dumpVars>>
    /\ UNCHANGED <<cfgVars, bhVars, mdVars, extVars>>

\* handle_signal, handler.rs:494-528: CRASH_CONTEXT.lock(), fill the context
\* (its tid is gd.t), enter generate_dump
HandleSignalLock(t, frame) ==
    /\ FrameWaitsForContext(t, frame)
    /\ ccLock = 0
    /\ ccLock' = t
    /\ gd' = [NoGd EXCEPT !.pc = "gd_mmap", !.t = t, !.frame = frame,
                          !.h = IF frame = "main" THEN opH[t]
                                ELSE HANDLER_STACK[sidx[t]]]
    /\ IF frame = "main"
       THEN pc' = [pc EXCEPT ![t] = "sim_in_gd"] /\ UNCHANGED spc
       ELSE spc' = [spc EXCEPT ![t] = "sh_in_gd"] /\ UNCHANGED pc
    /\ helper' = NoHelper
    /\ cbCount' = 0
    /\ cbAfterExit' = TRUE
    /\ UNCHANGED <<kernelVars, STACK_SAVE, OLD_HANDLERS, ohLock, HANDLER_STACK,
                   hsLock, hstate, hasCb, opH, opAgain, ssig,
                   scode, sidx, shandled, skill, deliveries>>
    /\ UNCHANGED <<cfgVars, bhVars, mdVars, extVars>>

\* the thread inside generate_dump is running
GdRuns == alive /\ gd.pc # "none" /\ (gd.frame = "sig" \/ spc[gd.t] = "none")

GdStay == UNCHANGED <<kernelVars, lockVars, apiVars, sigVars>>

\* generate_dump is about to return `result`
GdResult(result) == gd' = [gd EXCEPT !.pc = "gd_ret", !.success = result]

\* generate_dump, handler.rs:537-547: mmap of the helper stack
GdMmap(ok) ==
    /\ GdRuns
    /\ gd.pc = "gd_mmap"
    /\ IF ok THEN gd' = [gd EXCEPT !.pc = "gd_pipe"] ELSE GdResult(FALSE)
    /\ UNCHANGED <<helper, cbCount, cbAfterExit>>
    /\ GdStay
    /\ UNCHANGED <<cfgVars, bhVars, mdVars, extVars>>

\* generate_dump, handler.rs:560-576: pipe(); on failure both fds are -1
GdPipe(ok) ==
    /\ GdRuns
    /\ gd.pc = "gd_pipe"
    /\ gd' = [gd EXCEPT !.pc = "gd_clone", !.pipeOk = ok]
    /\ UNCHANGED <<helper, cbCount, cbAfterExit>>
    /\ GdStay
    /\ UNCHANGED <<cfgVars, bhVars, mdVars, extVars>>

\* generate_dump, handler.rs:586-596: clone() of thread_entry
GdClone(ok) ==
    /\ GdRuns
    /\ gd.pc = "gd_clone"
    /\ IF ok
       THEN /\ gd' = [gd EXCEPT !.pc = "gd_prctl"]
            /\ helper' = [pc |-> "h_read", status |-> 0]
       ELSE /\ GdResult(FALSE)
            /\ UNCHANGED helper
    /\ UNCHANGED <<cbCount, cbAfterExit>>
    /\ GdStay
    /\ UNCHANGED <<cfgVars, bhVars, mdVars, extVars>>

\* generate_dump, handler.rs:598-600: close(pipe_read), prctl(PR_SET_PTRACER)
GdPrctl ==
    /\ GdRuns
    /\ gd.pc = "gd_prctl"
    /\ gd' = [gd EXCEPT !.pc = "gd_write", !.ptracer = TRUE]
    /\ UNCHANGED <<helper, cbCount, cbAfterExit>>
    /\ GdStay
    /\ UNCHANGED <<cfgVars, bhVars, mdVars, extVars>>

\* generate_dump, handler.rs:602-622: write the continue byte; with no pipe
\* the write fails with EBADF
GdWrite ==
    /\ GdRuns
    /\ gd.pc = "gd_write"
    /\ gd' = [gd EXCEPT !.pc = "gd_waitpid",
                        !.pipeData = IF gd.pipeOk THEN @ + 1 ELSE @]
    /\ UNCHANGED <<helper, cbCount, cbAfterExit>>
    /\ GdStay
    /\ UNCHANGED <<cfgVars, bhVars, mdVars, extVars>>

\* handler.rs:644-645
GreatSuccess(waitOk, status) == waitOk /\ status = 0

\* generate_dump, handler.rs:624-645: waitpid blocks until the helper exits
GdWaitpid(waitOk) ==
    /\ GdRuns
    /\ gd.pc = "gd_waitpid"
    /\ helper.pc = "exited"
    /\ gd' = [gd EXCEPT !.pc = "gd_callback",
                        !.success = GreatSuccess(waitOk, helper.status)]
    /\ UNCHANGED <<helper, cbCount, cbAfterExit>>
    /\ GdStay
    /\ UNCHANGED <<cfgVars, bhVars, mdVars, extVars>>

\* generate_dump, handler.rs:647-651: on_crash decides the result when set
GdCallback(ret) ==
    /\ GdRuns
    /\ gd.pc = "gd_callback"
    /\ IF hasCb[gd.h]
       THEN /\ cbCount' = cbCount + 1
            /\ cbAfterExit' = (cbAfterExit /\ helper.pc = "exited")
            /\ GdResult(ret)
       ELSE /\ ret = gd.success
            /\ UNCHANGED <<cbCount, cbAfterExit>>
            /\ GdResult(gd.success)
    /\ UNCHANGED helper
    /\ GdStay
    /\ UNCHANGED <<cfgVars, bhVars, mdVars, extVars>>

EndFrame(t) ==
    /\ spc' = [spc EXCEPT ![t] = "none"]
    /\ ssig' = [ssig EXCEPT ![t] = 0]
    /\ scode' = [scode EXCEPT ![t] = 0]
    /\ sidx' = [sidx EXCEPT ![t] = 0]
    /\ shandled' = [shandled EXCEPT ![t] = FALSE]
    /\ skill' = [skill EXCEPT ![t] = "none"]

\* generate_dump returns to handle_signal, which drops the CRASH_CONTEXT
\* guard and returns the result to its caller: simulate_signal
\* (handler.rs:770) or the loop of signal_handler (handler.rs:283-289)
GdFinish ==
    /\ GdRuns
    /\ gd.pc = "gd_ret"
    /\ ccLock' = 0
    /\ gd' = NoGd
    /\ helper' = NoHelper
    /\ cbCount' = 0
    /\ cbAfterExit' = TRUE
    /\ IF gd.frame = "main"
       THEN /\ pc' = [pc EXCEPT ![gd.t] = "idle"]
            /\ opH' = [opH EXCEPT ![gd.t] = 0]
            /\ UNCHANGED <<spc, sidx, shandled>>
       ELSE /\ spc' = [spc EXCEPT ![gd.t] = IF gd.success THEN "sh_final" ELSE "sh_iter"]
            /\ sidx' = [sidx EXCEPT ![gd.t] = IF gd.success THEN @ ELSE @ + 1]
            /\ shandled' = [shandled EXCEPT ![gd.t] = gd.success]
            /\ UNCHANGED <<pc, opH>>
    /\ UNCHANGED <<kernelVars, STACK_SAVE, OLD_HANDLERS, ohLock, HANDLER_STACK,
                   hsLock, hstate, hasCb, opAgain, ssig, scode,
                   skill, deliveries>>
    /\ UNCHANGED <<cfgVars, bhVars, mdVars, extVars>>

\* ------------------------------------------- thread_entry (handler.rs:424)
HelperStay == UNCHANGED <<kernelVars, lockVars, apiVars, sigVars, gd, cbCount,
                          cbAfterExit>>

\* thread_entry, handler.rs:435-450: read() returns once the byte is there,
\* at once with EBADF when there is no pipe, and with end of file when the
\* parent is gone
ReadReturns_nowait(pipeOk, pipeData, parentAlive) == TRUE
ReadReturns(pipeOk, pipeData, parentAlive) ==
    ~pipeOk \/ pipeData > 0 \/ ~parentAlive

\* thread_entry, handler.rs:430-456: close(pipe_write), the read loop,
\* close(pipe_read)
HelperRead ==
    /\ helper.pc = "h_read"
    /\ ReadReturns(gd.pipeOk, gd.pipeData, alive)
    /\ helper' = [helper EXCEPT !.pc = "h_dump"]
    /\ HelperStay
    /\ UNCHANGED <<cfgVars, bhVars, mdVars, extVars>>

\* perform_dump, handler.rs:654-694
PerformDump == FALSE

\* thread_entry, handler.rs:458-462
HelperPerformDump ==
    /\ helper.pc = "h_dump"
    /\ helper' = [helper EXCEPT !.pc = "exited",
                                !.status = IF PerformDump THEN 0 ELSE 1]
    /\ HelperStay
    /\ UNCHANGED <<cfgVars, bhVars, mdVars, extVars>>

\* --------------------------------------- signal_handler (handler.rs:237)
\* The kernel runs signal_handler on thread t: the disposition is ours and
\* the exception signals are not masked by a handler already running there.
\* legacy: other code has just put our handler back with signal(), which
\* drops SA_SIGINFO (comment at handler.rs:248-257).  info.si_code is drawn
\* where the model first reads it, in ShReraise.
Deliver(t, sig, legacy) ==
    /\ alive
    /\ spc[t] = "none"
    /\ disp[sig] = "OURS"
    /\ deliveries < MaxDeliveries
    /\ deliveries' = deliveries + 1
    /\ disp' = [disp EXCEPT ![sig] = IF legacy THEN "OURS_LEGACY" ELSE @]
    /\ spc' = [spc EXCEPT ![t] = "sh_lock"]
    /\ ssig' = [ssig EXCEPT ![t] = sig]
    /\ sidx' = [sidx EXCEPT ![t] = 1]
    /\ UNCHANGED <<alive, exitStatus, origDisp, origStack, altStack, mapped, guards, lockVars,
                   apiVars, scode, shandled, skill, dumpVars>>
    /\ UNCHANGED <<cfgVars, bhVars, mdVars, extVars>>

\* signal_handler, handler.rs:246: HANDLER_STACK.lock()
ShLock(t) ==
    /\ alive
    /\ spc[t] = "sh_lock"
    /\ hsLock = 0
    /\ hsLock' = t
    /\ spc' = [spc EXCEPT ![t] = "sh_check"]
    /\ UNCHANGED <<kernelVars, STACK_SAVE, OLD_HANDLERS, ohLock, HANDLER_STACK,
                   ccLock, apiVars, ssig, scode, sidx, shandled, skill,
                   deliveries, dumpVars>>
    /\ UNCHANGED <<cfgVars, bhVars, mdVars, extVars>>

\* signal_handler, handler.rs:258-280: repair a handler installed without
\* SA_SIGINFO and return, releasing the registry lock; the kernel delivers
\* the signal again
ShCheck(t) ==
    /\ alive
    /\ spc[t] = "sh_check"
    /\ IF disp[ssig[t]] = "OURS_LEGACY"
       THEN /\ disp' = [disp EXCEPT ![ssig[t]] = "OURS"]
            /\ hsLock' = 0
            /\ EndFrame(t)
            /\ deliveries' = deliveries - 1
       ELSE /\ spc' = [spc EXCEPT ![t] = "sh_iter"]
            /\ UNCHANGED <<disp, hsLock, ssig, scode, sidx, shandled, skill,
                           deliveries>>
    /\ UNCHANGED <<alive, exitStatus, origDisp, origStack, altStack, mapped, guards, STACK_SAVE,
                   OLD_HANDLERS, ohLock, HANDLER_STACK, ccLock, apiVars, dumpVars>>
    /\ UNCHANGED <<cfgVars, bhVars, mdVars, extVars>>

\* signal_handler, handler.rs:282-292: the loop over the registry
ShIter(t) ==
    /\ alive
    /\ spc[t] = "sh_iter"
    /\ IF sidx[t] > Len(HANDLER_STACK)
       THEN /\ spc' = [spc EXCEPT ![t] = "sh_final"]
            /\ UNCHANGED sidx
       ELSE IF Upgrades(HANDLER_STACK[sidx[t]])
       THEN /\ spc' = [spc EXCEPT ![t] = "sh_cc_lock"]
            /\ UNCHANGED sidx
       ELSE /\ sidx' = [sidx EXCEPT ![t] = @ + 1]
            /\ UNCHANGED spc
    /\ UNCHANGED <<kernelVars, lockVars, apiVars, ssig, scode, shandled, skill,
                   deliveries, dumpVars>>
    /\ UNCHANGED <<cfgVars, bhVars, mdVars, extVars>>

\* signal_handler, handler.rs:299-303: the default handler when handled;
\* otherwise restore_handlers, which starts with OLD_HANDLERS.lock()
ShFinal(t) ==
    /\ alive
    /\ spc[t] = "sh_final"
    /\ IF shandled[t]
       THEN /\ disp' = [disp EXCEPT ![ssig[t]] = "SIG_DFL"]
            /\ hsLock' = 0
            /\ spc' = [spc EXCEPT ![t] = "sh_reraise"]
            /\ UNCHANGED ohLock
       ELSE /\ ohLock = 0
            /\ ohLock' = t
            /\ spc' = [spc EXCEPT ![t] = "sh_rh_body"]
            /\ UNCHANGED <<disp, hsLock>>
    /\ UNCHANGED <<alive, exitStatus, origDisp, origStack, altStack, mapped, guards, STACK_SAVE,
                   OLD_HANDLERS, HANDLER_STACK, ccLock, apiVars, ssig, scode,
                   sidx, shandled, skill, deliveries, dumpVars>>
    /\ UNCHANGED <<cfgVars, bhVars, mdVars, extVars>>

\* restore_handlers (handler.rs:174-186) called by signal_handler, then the
\* end of the block that holds the registry lock (handler.rs:304)
ShRestoreBody(t) ==
    /\ alive
    /\ spc[t] = "sh_rh_body"
    /\ disp' = RestoredDispositions(OLD_HANDLERS, disp)
    /\ OLD_HANDLERS' = None
    /\ ohLock' = 0
    /\ hsLock' = 0
    /\ spc' = [spc EXCEPT ![t] = "sh_reraise"]
    /\ UNCHANGED <<alive, exitStatus, origDisp, origStack, altStack, mapped, guards, STACK_SAVE,
                   HANDLER_STACK, ccLock, apiVars, ssig, scode, sidx, shandled,
                   skill, deliveries, dumpVars>>
    /\ UNCHANGED <<cfgVars, bhVars, mdVars, extVars>>

\* signal_handler, handler.rs:306
MustKill_strict(si_code, sig) == si_code < 0 \/ sig = SIGABRT
MustKill(si_code, sig) == si_code <= 0 \/ sig = SIGABRT

\* signal_handler, handler.rs:306-322: tgkill the current thread, _exit(1)
\* when that fails, or send nothing.  code is info.si_code.
ShReraise(t, code, tgkillOk) ==
    /\ alive
    /\ spc[t] = "sh_reraise"
    /\ scode' = [scode EXCEPT ![t] = code]
    /\ IF MustKill(code, ssig[t])
       THEN IF tgkillOk
            THEN /\ skill' = [skill EXCEPT ![t] = "sent"]
                 /\ spc' = [spc EXCEPT ![t] = "sh_return"]
                 /\ UNCHANGED <<alive, exitStatus>>
            ELSE /\ skill' = [skill EXCEPT ![t] = "failed"]
                 /\ alive' = FALSE
                 /\ exitStatus' = 1
                 /\ UNCHANGED spc
       ELSE /\ tgkillOk
            /\ skill' = [skill EXCEPT ![t] = "nothing"]
            /\ spc' = [spc EXCEPT ![t] = "sh_return"]
            /\ UNCHANGED <<alive, exitStatus>>
    /\ UNCHANGED <<disp, origDisp, origStack, altStack, mapped, guards, lockVars, apiVars, ssig,
                   sidx, shandled, deliveries, dumpVars>>
    /\ UNCHANGED <<cfgVars, bhVars, mdVars, extVars>>

\* signal_handler returns (handler.rs:323) and the kernel acts on the queued
\* or retriggered signal: the default action ends the process, a handler of
\* other code runs and returns, our own handler is entered again for the
\* same crash
ShReturn(t) ==
    /\ alive
    /\ spc[t] = "sh_return"
    /\ IF disp[ssig[t]] = "SIG_DFL"
       THEN /\ alive' = FALSE
            /\ exitStatus' = 128 + ssig[t]
            /\ UNCHANGED <<spc, ssig, scode, sidx, shandled, skill, deliveries>>
       ELSE IF disp[ssig[t]] = "USER"
       THEN /\ EndFrame(t)
            /\ UNCHANGED <<alive, exitStatus, deliveries>>
       ELSE /\ spc' = [spc EXCEPT ![t] = "sh_lock"]
            /\ scode' = [scode EXCEPT ![t] = 0]
            /\ sidx' = [sidx EXCEPT ![t] = 1]
            /\ shandled' = [shandled EXCEPT ![t] = FALSE]
            /\ skill' = [skill EXCEPT ![t] = "none"]
            /\ UNCHANGED <<alive, exitStatus, ssig, deliveries>>
    /\ UNCHANGED <<disp, origDisp, origStack, altStack, mapped, guards, lockVars, apiVars, dumpVars>>
    /\ UNCHANGED <<cfgVars, bhVars, mdVars, extVars>>

DispatchNext ==
    \/ \E t \in Threads, h \in Handlers, sig \in DeliveredSignals : Simulate(t, h, sig)
    \/ \E t \in Threads, frame \in {"main", "sig"} : HandleSignalLock(t, frame)
    \/ \E ok \in BOOLEAN : GdMmap(ok)
    \/ \E ok \in BOOLEAN : GdPipe(ok)
    \/ \E ok \in BOOLEAN : GdClone(ok)
    \/ GdPrctl
    \/ GdWrite
    \/ \E waitOk \in BOOLEAN : GdWaitpid(waitOk)
    \/ \E ret \in BOOLEAN : GdCallback(ret)
    \/ GdFinish
    \/ HelperRead
    \/ HelperPerformDump
    \/ \E t \in Threads, sig \in DeliveredSignals, legacy \in BOOLEAN :
          Deliver(t, sig, legacy)
    \/ \E t \in Threads : ShLock(t)
    \/ \E t \in Threads : ShCheck(t)
    \/ \E t \in Threads : ShIter(t)
    \/ \E t \in Threads : ShFinal(t)
    \/ \E t \in Threads : ShRestoreBody(t)
    \/ \E t \in Threads, code \in SiCodes, tgkillOk \in BOOLEAN :
          ShReraise(t, code, tgkillOk)
    \/ \E t \in Threads : ShReturn(t)


\* ====================================================================
\* Part 2: BreakpadHandler (breakpad-handler/src/lib.rs)
\* ====================================================================
NumClients == 4

Clients == 1..NumClients

InitBH ==
    /\ HANDLER_ATTACHED = FALSE
    /\ bhPc = [c \in Clients |-> "idle"]
    /\ sysHandlers = 0

\* AtomicBool::compare_and_swap(current, new): the value stored afterwards;
\* the value returned is the one stored before
CompareAndSwap(stored, current, new) == IF stored = current THEN new ELSE stored

\* lib.rs:63-65: attach gives up when the flag was already set
AlreadyRegistered_unchecked(previous) == FALSE
AlreadyRegistered(previous) == previous

\* BreakpadHandler::attach, lib.rs:63-65: the compare_and_swap and the early
\* return of Err(HandlerAlreadyRegistered), which the caller then holds
BhAttach(c) ==
    /\ bhPc[c] = "idle"
    /\ HANDLER_ATTACHED' = CompareAndSwap(HANDLER_ATTACHED, FALSE, TRUE)
    /\ bhPc' = [bhPc EXCEPT ![c] = IF AlreadyRegistered(HANDLER_ATTACHED)
                                   THEN "refused" ELSE "attaching"]
    /\ UNCHANGED sysHandlers
    /\ UNCHANGED <<dispatcherVars, cfgVars, mdVars, extVars>>

\* the caller is done with the Err value
BhRefused(c) ==
    /\ bhPc[c] = "refused"
    /\ bhPc' = [bhPc EXCEPT ![c] = "idle"]
    /\ UNCHANGED <<HANDLER_ATTACHED, sysHandlers>>
    /\ UNCHANGED <<dispatcherVars, cfgVars, mdVars, extVars>>

\* attach, lib.rs:67-125: attach_exception_handler and Ok(Self)
BhAttached(c) ==
    /\ bhPc[c] = "attaching"
    /\ sysHandlers' = sysHandlers + 1
    /\ bhPc' = [bhPc EXCEPT ![c] = "attached"]
    /\ UNCHANGED HANDLER_ATTACHED
    /\ UNCHANGED <<dispatcherVars, cfgVars, mdVars, extVars>>

\* Drop, lib.rs:133-134: detach_exception_handler and the callback box
BhDrop(c) ==
    /\ bhPc[c] = "attached"
    /\ sysHandlers' = sysHandlers - 1
    /\ bhPc' = [bhPc EXCEPT ![c] = "dropping"]
    /\ UNCHANGED HANDLER_ATTACHED
    /\ UNCHANGED <<dispatcherVars, cfgVars, mdVars, extVars>>

\* Drop, lib.rs:135: HANDLER_ATTACHED.swap(false)
BhDropped(c) ==
    /\ bhPc[c] = "dropping"
    /\ HANDLER_ATTACHED' = FALSE
    /\ bhPc' = [bhPc EXCEPT ![c] = "idle"]
    /\ UNCHANGED sysHandlers
    /\ UNCHANGED <<dispatcherVars, cfgVars, mdVars, extVars>>

BreakpadHandlerNext ==
    \/ \E c \in Clients : BhAttach(c)
    \/ \E c \in Clients : BhRefused(c)
    \/ \E c \in Clients : BhAttached(c)
    \/ \E c \in Clients : BhDrop(c)
    \/ \E c \in Clients : BhDropped(c)

\* ====================================================================
\* Part 3: MinidumpWriter::dump over FileWriter
\*         (linux/minidump_writer.rs, linux/file_writer.rs)
\* ====================================================================
MaxDumpThreads == 2

NUM_STREAMS == 13
MINIDUMP_SIGNATURE == 1347241037
MINIDUMP_VERSION == 42899
PAGE_SIZE == 4096
SizeOfHeader == 32
SizeOfDirectory == 12
SizeOfThread == 48
SizeOfU32 == 4
SizeOfRawContextCpu == 1232
IP_MEM_SIZE == 256

\* lengths of the stack get_stack_info finds for a thread, 0 when it finds
\* none; sizes of the memory kept around the crashing instruction pointer,
\* 0 when the thread is not the crashing one or no mapping holds the ip
StackLens == {0, IP_MEM_SIZE, 2 * PAGE_SIZE}
IpLens == {0, IP_MEM_SIZE}

\* results of FileWriter::write: everything done, the first seek failed,
\* write_all failed part way, the seek back failed
WriteOutcomes == {"ok", "seek_failed", "write_failed", "seek_back_failed"}

InitMD(threadCounts) ==
    /\ mdPc = "hdr_reserve"
    /\ mdResult = "none"
    /\ mdThreads \in threadCounts
    /\ fw = [page_size |-> PAGE_SIZE, pos |-> 0, len |-> 0]
    /\ fileLen = 0
    /\ extents = << >>
    /\ reservations = << >>
    /\ flushed = FALSE
    /\ header = None
    /\ dirEntries = {}

\* reserve_raw, file_writer.rs:50-51
NeedsGrow(w, size) == w.len - w.pos < size

\* reserve_raw, file_writer.rs:53-55
GrownLen(w, size) == w.len + (size \div w.page_size + 1) * w.page_size

\* reserve_raw, file_writer.rs:62
PosAfterReserve_stuck(pos, size) == pos
PosAfterReserve(pos, size) == pos + size

\* FileWriter::reserve_raw, file_writer.rs:49-65; setLenOk is the result of
\* set_len, which is called only when the file has to grow
ReserveRaw(size, setLenOk) ==
    /\ NeedsGrow(fw, size) \/ setLenOk
    /\ IF setLenOk
       THEN /\ fw' = [fw EXCEPT
                        !.len = IF NeedsGrow(fw, size) THEN GrownLen(fw, size) ELSE @,
                        !.pos = PosAfterReserve(@, size)]
            /\ fileLen' = IF NeedsGrow(fw, size) THEN GrownLen(fw, size) ELSE fileLen
            /\ reservations' = Append(reservations, [pos |-> fw.pos, size |-> size])
       ELSE UNCHANGED <<fw, fileLen, reservations>>

Max(a, b) == IF a >= b THEN a ELSE b

\* FileWriter::write, file_writer.rs:105-119: the file after the call
Written(reservation, offset, size, tag, outcome) ==
    IF outcome = "seek_failed" THEN extents
    ELSE Append(extents, [pos |-> reservation.pos + offset, size |-> size,
                          tag |-> tag, complete |-> outcome # "write_failed"])

Write(reservation, offset, size, tag, outcome) ==
    /\ extents' = Written(reservation, offset, size, tag, outcome)
    /\ fileLen' = IF outcome = "seek_failed" THEN fileLen
                  ELSE Max(fileLen, reservation.pos + offset + size)

\* the step after a call: `?` returns Err from dump when the call failed
AfterCall(ok, next) ==
    /\ mdPc' = IF ok THEN next ELSE "done"
    /\ mdResult' = IF ok THEN mdResult ELSE "Err"

Latest == reservations[Len(reservations)]

\* dump, minidump_writer.rs:86: fw.reserve::<Header>()
MdReserveHeader(setLenOk) ==
    /\ mdPc = "hdr_reserve"
    /\ ReserveRaw(SizeOfHeader, setLenOk)
    /\ AfterCall(setLenOk, "hdr_write")
    /\ UNCHANGED <<mdThreads, extents, flushed, header, dirEntries>>
    /\ UNCHANGED <<dispatcherVars, cfgVars, bhVars, extVars>>

\* dump, minidump_writer.rs:87-101: item.write(Header { .. })
MdWriteHeader(outcome) ==
    /\ mdPc = "hdr_write"
    /\ Write(reservations[1], 0, SizeOfHeader, "Header", outcome)
    /\ header' = IF outcome \in {"ok", "seek_back_failed"}
                 THEN Some([signature |-> MINIDUMP_SIGNATURE,
                            version |-> MINIDUMP_VERSION,
                            stream_count |-> NUM_STREAMS,
                            stream_directory_rva |-> SizeOfHeader])
                 ELSE header
    /\ AfterCall(outcome = "ok", "hdr_flush")
    /\ UNCHANGED <<mdThreads, fw, reservations, flushed, dirEntries>>
    /\ UNCHANGED <<dispatcherVars, cfgVars, bhVars, extVars>>

\* dump, minidump_writer.rs:103: fw.flush()
MdFlush(ok) ==
    /\ mdPc = "hdr_flush"
    /\ flushed' = ok
    /\ AfterCall(ok, "dir_reserve")
    /\ UNCHANGED <<mdThreads, fw, fileLen, extents, reservations, header,
                   dirEntries>>
    /\ UNCHANGED <<dispatcherVars, cfgVars, bhVars, extVars>>

\* dump, minidump_writer.rs:106: fw.reserve_array(NUM_STREAMS)
MdReserveDirectory(setLenOk) ==
    /\ mdPc = "dir_reserve"
    /\ ReserveRaw(SizeOfDirectory * NUM_STREAMS, setLenOk)
    /\ AfterCall(setLenOk, "tl_reserve")
    /\ UNCHANGED <<mdThreads, extents, flushed, header, dirEntries>>
    /\ UNCHANGED <<dispatcherVars, cfgVars, bhVars, extVars>>

\* write_thread_list, minidump_writer.rs:121:
\* fw.reserve_header_array::<u32, Thread>(num_threads)
TlReserve(setLenOk) ==
    /\ mdPc = "tl_reserve"
    /\ ReserveRaw(SizeOfU32 + SizeOfThread * mdThreads, setLenOk)
    /\ AfterCall(setLenOk, "tl_header")
    /\ UNCHANGED <<mdThreads, extents, flushed, header, dirEntries>>
    /\ UNCHANGED <<dispatcherVars, cfgVars, bhVars, extVars>>

\* write_thread_list, minidump_writer.rs:122: tlist.write_header(num_threads);
\* with no thread the loop is skipped and dump goes on to dir.write
TlWriteHeader(outcome) ==
    /\ mdPc = "tl_header"
    /\ Write(reservations[3], 0, SizeOfU32, "ThreadCount", outcome)
    /\ AfterCall(outcome = "ok", IF mdThreads = 0 THEN "dir_write" ELSE "thr_info")
    /\ UNCHANGED <<mdThreads, fw, reservations, flushed, header, dirEntries>>
    /\ UNCHANGED <<dispatcherVars, cfgVars, bhVars, extVars>>

\* the first thread of the loop, minidump_writer.rs:158-177 / 235-240 and
\* fill_thread_stack 272-323: get_thread_info, then the reservation for the
\* copy of the stack get_stack_info found (stack = 0: none found)
ThreadStackReserve(infoOk, stack, setLenOk) ==
    /\ mdPc = "thr_info"
    /\ IF infoOk /\ stack # 0
       THEN /\ ReserveRaw(stack, setLenOk)
            /\ AfterCall(setLenOk, "thr_stack_write")
       ELSE /\ setLenOk
            /\ stack = 0
            /\ AfterCall(infoOk, "thr_ip_reserve")
            /\ UNCHANGED <<fw, fileLen, reservations>>
    /\ UNCHANGED <<mdThreads, extents, flushed, header, dirEntries>>
    /\ UNCHANGED <<dispatcherVars, cfgVars, bhVars, extVars>>

\* fill_thread_stack, minidump_writer.rs:324: fw.write(memory_res, 0, ..)
ThreadStackWrite(outcome) ==
    /\ mdPc = "thr_stack_write"
    /\ Write(Latest, 0, Latest.size, "Stack", outcome)
    /\ AfterCall(outcome = "ok", "thr_ip_reserve")
    /\ UNCHANGED <<mdThreads, fw, reservations, flushed, header, dirEntries>>
    /\ UNCHANGED <<dispatcherVars, cfgVars, bhVars, extVars>>

\* the crashing thread with a mapping around its instruction pointer,
\* minidump_writer.rs:180-213: fw.reserve_raw(ip_size) (ip = 0: any other
\* thread, or no mapping found)
ThreadIpReserve(ip, setLenOk) ==
    /\ mdPc = "thr_ip_reserve"
    /\ IF ip # 0
       THEN /\ ReserveRaw(ip, setLenOk)
            /\ AfterCall(setLenOk, "thr_ip_write")
       ELSE /\ setLenOk
            /\ AfterCall(TRUE, "thr_ctx_reserve")
            /\ UNCHANGED <<fw, fileLen, reservations>>
    /\ UNCHANGED <<mdThreads, extents, flushed, header, dirEntries>>
    /\ UNCHANGED <<dispatcherVars, cfgVars, bhVars, extVars>>

\* minidump_writer.rs:214: fw.write(ip_memory, 0, ..)
ThreadIpWrite(outcome) ==
    /\ mdPc = "thr_ip_write"
    /\ Write(Latest, 0, Latest.size, "IpMemory", outcome)
    /\ AfterCall(outcome = "ok", "thr_ctx_reserve")
    /\ UNCHANGED <<mdThreads, fw, reservations, flushed, header, dirEntries>>
    /\ UNCHANGED <<dispatcherVars, cfgVars, bhVars, extVars>>

\* minidump_writer.rs:222-228 / 249-250: fw.reserve::<RawContextCpu>(), then
\* get_cpu_context, which ends in unimplemented!() (thread_info.rs:271,
\* handler.rs:389) and unwinds out of dump
ThreadContext(setLenOk) ==
    /\ mdPc = "thr_ctx_reserve"
    /\ ReserveRaw(SizeOfRawContextCpu, setLenOk)
    /\ mdPc' = "done"
    /\ mdResult' = IF setLenOk THEN "Panic" ELSE "Err"
    /\ UNCHANGED <<mdThreads, extents, flushed, header, dirEntries>>
    /\ UNCHANGED <<dispatcherVars, cfgVars, bhVars, extVars>>

\* dump, minidump_writer.rs:109-113: dir.write(0, thread list entry), then
\* write_mappings, which is unimplemented!() (minidump_writer.rs:334)
MdWriteDirectory(outcome) ==
    /\ mdPc = "dir_write"
    /\ Write(reservations[2], SizeOfDirectory * 0, SizeOfDirectory, "Directory",
             outcome)
    /\ dirEntries' = IF outcome \in {"ok", "seek_back_failed"}
                     THEN dirEntries \cup {0} ELSE dirEntries
    /\ mdPc' = "done"
    /\ mdResult' = IF outcome = "ok" THEN "Panic" ELSE "Err"
    /\ UNCHANGED <<mdThreads, fw, reservations, flushed, header>>
    /\ UNCHANGED <<dispatcherVars, cfgVars, bhVars, extVars>>

MinidumpWriterNext ==
    \/ \E setLenOk \in BOOLEAN : MdReserveHeader(setLenOk)
    \/ \E outcome \in WriteOutcomes : MdWriteHeader(outcome)
    \/ \E ok \in BOOLEAN : MdFlush(ok)
    \/ \E setLenOk \in BOOLEAN : MdReserveDirectory(setLenOk)
    \/ \E setLenOk \in BOOLEAN : TlReserve(setLenOk)
    \/ \E outcome \in WriteOutcomes : TlWriteHeader(outcome)
    \/ \E infoOk \in BOOLEAN, stack \in StackLens, setLenOk \in BOOLEAN :
          ThreadStackReserve(infoOk, stack, setLenOk)
    \/ \E outcome \in WriteOutcomes : ThreadStackWrite(outcome)
    \/ \E ip \in IpLens, setLenOk \in BOOLEAN : ThreadIpReserve(ip, setLenOk)
    \/ \E outcome \in WriteOutcomes : ThreadIpWrite(outcome)
    \/ \E setLenOk \in BOOLEAN : ThreadContext(setLenOk)
    \/ \E outcome \in WriteOutcomes : MdWriteDirectory(outcome)

\* ====================================================================
\* Part 4: the reservation handles of linux/file_writer.rs, called with
\*         any count, index, offset and buffer
\* ====================================================================
MaxFwReservations == 2
MaxFwWrites == 2
MaxCount == 2
MaxIndex == 2

\* size_of::<Kind>() of the items reserved, lengths of the raw buffers
\* written and the offsets they are written at
KindSizes == {SizeOfU32, SizeOfDirectory}
RawLens == {SizeOfU32, IP_MEM_SIZE}
RawOffsets == {0, SizeOfU32}

InitFwApi == handles = << >>

\* MDItem<Kind>, MDArray<Kind>, MDHeaderArray<Header, Kind>: the sizes are
\* those of the type parameters, the count is not kept
Handle(kind, hdr, elem) == [kind |-> kind, header |-> hdr, elem |-> elem]

\* what a FileWriter call leaves alone
FwFrame ==
    /\ UNCHANGED <<mdPc, mdResult, mdThreads, flushed, header, dirEntries>>
    /\ UNCHANGED <<dispatcherVars, cfgVars, bhVars, paVars, vecVars, tracerVars, linesVars,
                   elfVars, mapsVars, tlistVars, stackVars,
                auxvVars>>

\* the handle a reserve function returns when reserve_raw returned Ok
Returned(handle, setLenOk) == IF setLenOk THEN Append(handles, handle) ELSE handles

\* FileWriter::reserve_raw called directly, file_writer.rs:49
FwReserveRaw(size, setLenOk) ==
    /\ Len(reservations) < MaxFwReservations
    /\ ReserveRaw(size, setLenOk)
    /\ handles' = Returned(Handle("raw", 0, 0), setLenOk)
    /\ UNCHANGED extents
    /\ FwFrame

\* FileWriter::reserve, file_writer.rs:68-75
FwReserve(kind, setLenOk) ==
    /\ Len(reservations) < MaxFwReservations
    /\ ReserveRaw(kind, setLenOk)
    /\ handles' = Returned(Handle("item", 0, kind), setLenOk)
    /\ UNCHANGED extents
    /\ FwFrame

\* FileWriter::reserve_array, file_writer.rs:78-87
FwReserveArray(kind, count, setLenOk) ==
    /\ Len(reservations) < MaxFwReservations
    /\ ReserveRaw(kind * count, setLenOk)
    /\ handles' = Returned(Handle("array", 0, kind), setLenOk)
    /\ UNCHANGED extents
    /\ FwFrame

\* FileWriter::reserve_header_array, file_writer.rs:90-102
FwReserveHeaderArray(hdr, kind, count, setLenOk) ==
    /\ Len(reservations) < MaxFwReservations
    /\ ReserveRaw(hdr + kind * count, setLenOk)
    /\ handles' = Returned(Handle("header_array", hdr, kind), setLenOk)
    /\ UNCHANGED extents
    /\ FwFrame

\* FileWriter::write called directly, file_writer.rs:105-119; every extent
\* of this part is tagged with the index of the reservation passed
FwWrite(i, offset, len, outcome) ==
    /\ Len(extents) < MaxFwWrites
    /\ i <= Len(handles) /\ handles[i].kind = "raw"
    /\ Write(reservations[i], offset, len, i, outcome)
    /\ UNCHANGED <<fw, reservations, handles>>
    /\ FwFrame

\* MDItem::write, file_writer.rs:136-138
MDItemWrite(i, outcome) ==
    /\ Len(extents) < MaxFwWrites
    /\ i <= Len(handles) /\ handles[i].kind = "item"
    /\ Write(reservations[i], 0, handles[i].elem, i, outcome)
    /\ UNCHANGED <<fw, reservations, handles>>
    /\ FwFrame

\* MDArray::write, file_writer.rs:153-164
MDArrayWrite(i, index, outcome) ==
    /\ Len(extents) < MaxFwWrites
    /\ i <= Len(handles) /\ handles[i].kind = "array"
    /\ Write(reservations[i], handles[i].elem * index, handles[i].elem, i,
             outcome)
    /\ UNCHANGED <<fw, reservations, handles>>
    /\ FwFrame

\* MDHeaderArray::write_header, file_writer.rs:180-186
MDHeaderArrayWriteHeader(i, outcome) ==
    /\ Len(extents) < MaxFwWrites
    /\ i <= Len(handles) /\ handles[i].kind = "header_array"
    /\ Write(reservations[i], 0, handles[i].header, i, outcome)
    /\ UNCHANGED <<fw, reservations, handles>>
    /\ FwFrame

\* MDHeaderArray::write, file_writer.rs:189-200
MDHeaderArrayWrite(i, index, outcome) ==
    /\ Len(extents) < MaxFwWrites
    /\ i <= Len(handles) /\ handles[i].kind = "header_array"
    /\ Write(reservations[i], handles[i].header + handles[i].elem * index,
             handles[i].elem, i, outcome)
    /\ UNCHANGED <<fw, reservations, handles>>
    /\ FwFrame

FileWriterNext ==
    \/ \E size \in RawLens, setLenOk \in BOOLEAN : FwReserveRaw(size, setLenOk)
    \/ \E kind \in KindSizes, setLenOk \in BOOLEAN : FwReserve(kind, setLenOk)
    \/ \E kind \in KindSizes, count \in 0..MaxCount, setLenOk \in BOOLEAN :
          FwReserveArray(kind, count, setLenOk)
    \/ \E kind \in KindSizes, count \in 0..MaxCount, setLenOk \in BOOLEAN :
          FwReserveHeaderArray(SizeOfU32, kind, count, setLenOk)
    \/ \E i \in 1..MaxFwReservations, offset \in RawOffsets, len \in RawLens,
          outcome \in WriteOutcomes : FwWrite(i, offset, len, outcome)
    \/ \E i \in 1..MaxFwReservations, outcome \in WriteOutcomes :
          MDItemWrite(i, outcome)
    \/ \E i \in 1..MaxFwReservations, index \in 0..MaxIndex,
          outcome \in WriteOutcomes : MDArrayWrite(i, index, outcome)
    \/ \E i \in 1..MaxFwReservations, outcome \in WriteOutcomes :
          MDHeaderArrayWriteHeader(i, outcome)
    \/ \E i \in 1..MaxFwReservations, index \in 0..MaxIndex,
          outcome \in WriteOutcomes : MDHeaderArrayWrite(i, index, outcome)

\* ====================================================================
\* Part 5: PageAllocator (alloc/page_allocator.rs)
\* ====================================================================
\* Addresses are byte addresses; page k is the bytes k * PAGE_SIZE up to
\* (k + 1) * PAGE_SIZE, page 0 is never mapped.  mmap returns the address
\* of any run of unmapped pages or MAP_FAILED, written 0.
MaxPages == 5
MaxAllocs == 3

\* size_of::<PageHeader>(): an Option<*mut Self> and a usize
SizeOfPageHeader == 24

\* std::mem::size_of::<usize>()
WordSize == 8

AllocSizes == {1, WordSize, PAGE_SIZE - SizeOfPageHeader - 1,
               PAGE_SIZE - SizeOfPageHeader, PAGE_SIZE, 2 * PAGE_SIZE}

\* PageAllocator::new, page_allocator.rs:53-59
InitPA ==
    /\ pa = [last |-> None, current_page |-> None, total_allocated_pages |-> 0]
    /\ headers = << >>
    /\ regions = << >>
    /\ paResult = "none"
    /\ paCalls = 0

\* the bytes of the block whose PageHeader is at b
BlockBytes(b) == headers[b].num_pages * PAGE_SIZE

\* the results mmap can give for a request of n pages
MmapResults(n) ==
    {0} \cup {k * PAGE_SIZE : k \in {j \in 1..(MaxPages - n + 1) :
                \A b \in DOMAIN headers :
                    (j + n) * PAGE_SIZE <= b \/ b + BlockBytes(b) <= j * PAGE_SIZE}}

\* alloc_raw, page_allocator.rs:71-72
FitsCurrent(size) ==
    /\ pa.current_page # None
    /\ PAGE_SIZE - pa.current_page[1].offset >= size

\* alloc_raw, page_allocator.rs:85
NumPages_one_more(size) == (size + SizeOfPageHeader) \div PAGE_SIZE + 1
NumPages(size) == (size + SizeOfPageHeader + PAGE_SIZE - 1) \div PAGE_SIZE

\* alloc_raw, page_allocator.rs:89-91
TailOffset_noheader(size) == size % PAGE_SIZE
TailOffset(size) ==
    (PAGE_SIZE - (PAGE_SIZE * NumPages(size) - (size + SizeOfPageHeader))) % PAGE_SIZE

\* alloc_pages returning Err, page_allocator.rs:120-122
AfterMapFailed_counted(a) == [a EXCEPT !.total_allocated_pages = @ + 1]
AfterMapFailed(a) == a

\* alloc_pages after a successful mmap, page_allocator.rs:124-129, and the
\* rest of alloc_raw, page_allocator.rs:89-98
AfterMapped(a, size, alloced) ==
    [last |-> Some(alloced),
     total_allocated_pages |-> a.total_allocated_pages + NumPages(size),
     current_page |->
        IF TailOffset(size) # 0
        THEN Some([start |-> alloced + PAGE_SIZE * (NumPages(size) - 1),
                   offset |-> TailOffset(size)])
        ELSE a.current_page]

\* alloc_raw taking the bytes from the current page, page_allocator.rs:73-79
AfterBump(a, size) ==
    [a EXCEPT !.current_page =
        IF a.current_page[1].offset + size = PAGE_SIZE THEN None
        ELSE Some([a.current_page[1] EXCEPT !.offset = @ + size])]

\* PageAllocator::alloc_raw, page_allocator.rs:66-104, alloc_pages included;
\* alloced is the result of mmap, 0 also when mmap is not called
AllocRaw(size, alloced) ==
    /\ paCalls < MaxAllocs
    /\ paCalls' = paCalls + 1
    /\ IF FitsCurrent(size)
       THEN /\ alloced = 0
            /\ pa' = AfterBump(pa, size)
            /\ regions' = Append(regions,
                    [ptr |-> pa.current_page[1].start + pa.current_page[1].offset,
                     size |-> size])
            /\ paResult' = "Ok"
            /\ UNCHANGED headers
       ELSE /\ alloced \in MmapResults(NumPages(size))
            /\ IF alloced = 0
               THEN /\ pa' = AfterMapFailed(pa)
                    /\ paResult' = "AllocError"
                    /\ UNCHANGED <<headers, regions>>
               ELSE /\ headers' = (alloced :> [next |-> pa.last,
                                               num_pages |-> NumPages(size)])
                                  @@ headers
                    /\ pa' = AfterMapped(pa, size, alloced)
                    /\ regions' = Append(regions,
                            [ptr |-> alloced + SizeOfPageHeader, size |-> size])
                    /\ paResult' = "Ok"
    /\ UNCHANGED <<dispatcherVars, cfgVars, bhVars, mdVars, fwApiVars, vecVars, tracerVars,
                   linesVars, elfVars, mapsVars, tlistVars, stackVars,
                auxvVars>>

\* owns_pointer, page_allocator.rs:161
InBlock_first_page(b, p) == p >= b /\ p < b + PAGE_SIZE
InBlock(b, p) == p >= b /\ p < b + BlockBytes(b)

\* PageAllocator::owns_pointer, page_allocator.rs:153-170: the walk from
\* current along the next links
RECURSIVE OwnsFrom(_, _)
OwnsFrom(current, p) ==
    IF current = None THEN FALSE
    ELSE IF InBlock(current[1], p) THEN TRUE
    ELSE OwnsFrom(headers[current[1]].next, p)

owns_pointer(p) == OwnsFrom(pa.last, p)

\* AllocRef::alloc, page_allocator.rs:173-182, hands layout.size() to
\* alloc_raw and nothing else of the layout: a region of some size is what
\* every layout of that size was given.  The layouts asked for are
\* Layout::array::<u8>(n) (minidump_writer.rs:390-396) and the arrays of
\* words of a PageVec.
LayoutsOf(size) ==
    {[size |-> size, align |-> align] :
        align \in {a \in {1, WordSize} : size % a = 0}}

PageAllocatorNext ==
    \E size \in AllocSizes, alloced \in {k * PAGE_SIZE : k \in 0..MaxPages} :
        AllocRaw(size, alloced)

\* ====================================================================
\* Part 6: PageVec over RawVec (alloc/page_vec.rs, alloc/raw_vec.rs)
\* ====================================================================
\* The buffer of the RawVec is the sequence vec.buf of its cap slots; a
\* slot holds a value or Uninit.  Indices of the code count from 0, those
\* of vec.buf from 1.  The elements are Copy (i32 in the tests), so
\* drop_in_place does nothing and a slot given up keeps its value.
\* crate::alloc::AllocRef::grow and shrink are not in the sources: they are
\* taken to allocate anew and copy, as the allocator contract of the
\* specification describes them.
MaxVecLen == 3
MaxValue == 2

\* size_of::<T>() for the i32 elements of the tests
SizeOfElem == 4

Values == 1..MaxValue
Uninit == 0
ReserveAmounts == {1, 2}
Items == {<<v>> : v \in Values} \cup {<<v, w>> : v, w \in Values}

\* PageVec::new_in, page_vec.rs:42-47
InitVec ==
    /\ vec = [buf |-> << >>, len |-> 0, status |-> "Ok"]
    /\ refSeq = << >>
    /\ vecRet = None
    /\ refRet = None

\* AllocRef::grow / alloc as called by finish_grow, raw_vec.rs:373-382: a
\* buffer of newCap slots that starts with the bytes of the old one
Grown(b, newCap) == [j \in 1..newCap |-> IF j <= Len(b) THEN b[j] ELSE Uninit]

\* AllocRef::shrink as called by RawVec::shrink, raw_vec.rs:343-351
Shrunk(b, newCap) == SubSeq(b, 1, newCap)

\* RawVec::needs_to_grow, raw_vec.rs:247-249
NeedsToGrow(v, additional) == additional > Len(v.buf) - v.len

\* grow_amortized, raw_vec.rs:294-300
MinNonZeroCap == IF SizeOfElem = 1 THEN 8 ELSE IF SizeOfElem <= 1024 THEN 4 ELSE 1

\* grow_amortized, raw_vec.rs:279-301
AmortizedCap_required(v, additional) == v.len + additional - 1
AmortizedCap(v, additional) ==
    Max(MinNonZeroCap, Max(Len(v.buf) * 2, v.len + additional))

\* handle_reserve, raw_vec.rs:398-404: handle_alloc_error does not return
OnAllocError(v) == [v EXCEPT !.status = "Abort"]

\* PageVec::reserve, page_vec.rs:81-83: RawVec::reserve, try_reserve,
\* grow_amortized, finish_grow and handle_reserve, raw_vec.rs:182-193,
\* 268-309, 360-404; allocOk is the result of the allocator
Reserved(v, additional, allocOk) ==
    IF ~NeedsToGrow(v, additional) THEN v
    ELSE IF allocOk THEN [v EXCEPT !.buf = Grown(@, AmortizedCap(v, additional))]
    ELSE OnAllocError(v)

\* ptr::copy(ptr.add(src), ptr.add(dst), count)
Copy_noshift(b, src, dst, count) == b
Copy(b, src, dst, count) ==
    [j \in 1..Len(b) |-> IF dst < j /\ j <= dst + count THEN b[j - dst + src] ELSE b[j]]

\* slice::swap(i, j)
Swap(b, i, j) == [b EXCEPT ![i + 1] = b[j + 1], ![j + 1] = b[i + 1]]

\* PageVec::truncate, page_vec.rs:98-115
Truncated(v, len) == [v EXCEPT !.len = IF len > v.len THEN v.len ELSE len]

\* ptr::write of the items from slot len on, then len += count
Filled(v, items) ==
    [v EXCEPT !.buf = [j \in 1..Len(@) |->
                          IF v.len < j /\ j <= v.len + Len(items)
                          THEN items[j - v.len] ELSE @[j]],
              !.len = @ + Len(items)]

\* the allocator is asked only when the buffer has to grow
AllocatorAsked(v, additional, allocOk) ==
    /\ vec.status = "Ok"
    /\ allocOk \/ NeedsToGrow(v, additional)

\* the reference sequence
RefFront(s) == SubSeq(s, 1, Len(s) - 1)
RefInsert(s, index, x) == SubSeq(s, 1, index) \o <<x>> \o SubSeq(s, index + 1, Len(s))
RefRemove(s, index) == SubSeq(s, 1, index) \o SubSeq(s, index + 2, Len(s))
RefTruncate(s, len) == IF len > Len(s) THEN s ELSE SubSeq(s, 1, len)
RefRepeat(n, x) == [j \in 1..n |-> x]
RefRetain(s, k) == LET Keep(x) == x # k IN SelectSeq(s, Keep)
RECURSIVE RefDedup(_)
RefDedup(s) ==
    IF Len(s) <= 1 THEN s
    ELSE IF s[Len(s)] = s[Len(s) - 1] THEN RefDedup(RefFront(s))
    ELSE Append(RefDedup(RefFront(s)), s[Len(s)])

\* what the reference does when the vector did not abort
RefAfter(v, s) == IF v.status = "Ok" THEN s ELSE refSeq

VecFrame ==
    UNCHANGED <<dispatcherVars, cfgVars, bhVars, mdVars, fwApiVars, paVars, tracerVars,
                linesVars, elfVars, mapsVars, tlistVars, stackVars,
                auxvVars>>

\* PageVec::push, page_vec.rs:325-336
VecPush(x, allocOk) ==
    /\ vec.len < MaxVecLen
    /\ AllocatorAsked(vec, IF vec.len = Len(vec.buf) THEN 1 ELSE 0, allocOk)
    /\ LET r == IF vec.len = Len(vec.buf) THEN Reserved(vec, 1, allocOk) ELSE vec
       IN  /\ vec' = IF r.status = "Ok" THEN Filled(r, <<x>>) ELSE r
           /\ refSeq' = RefAfter(r, Append(refSeq, x))
    /\ vecRet' = None /\ refRet' = None
    /\ VecFrame

\* PageVec::pop, page_vec.rs:339-348
VecPop ==
    /\ vec.status = "Ok"
    /\ IF vec.len = 0
       THEN /\ vecRet' = None
            /\ UNCHANGED vec
       ELSE /\ vec' = [vec EXCEPT !.len = @ - 1]
            /\ vecRet' = Some(vec.buf[vec'.len + 1])
    /\ refRet' = IF refSeq = << >> THEN None ELSE Some(refSeq[Len(refSeq)])
    /\ refSeq' = IF refSeq = << >> THEN refSeq ELSE RefFront(refSeq)
    /\ VecFrame

\* PageVec::insert, page_vec.rs:177-211, with index <= len
VecInsert(index, x, allocOk) ==
    /\ vec.len < MaxVecLen /\ index <= vec.len
    /\ AllocatorAsked(vec, IF vec.len = Len(vec.buf) THEN 1 ELSE 0, allocOk)
    /\ LET r == IF vec.len = Len(vec.buf) THEN Reserved(vec, 1, allocOk) ELSE vec
       IN  /\ vec' = IF r.status # "Ok" THEN r
                     ELSE [r EXCEPT
                             !.buf = [Copy(@, index, index + 1, r.len - index)
                                        EXCEPT ![index + 1] = x],
                             !.len = @ + 1]
           /\ refSeq' = RefAfter(r, RefInsert(refSeq, index, x))
    /\ vecRet' = None /\ refRet' = None
    /\ VecFrame

\* PageVec::remove, page_vec.rs:213-240, with index < len
VecRemove(index) ==
    /\ vec.status = "Ok" /\ index < vec.len
    /\ vecRet' = Some(vec.buf[index + 1])
    /\ vec' = [vec EXCEPT !.buf = Copy(@, index + 1, index, vec.len - index - 1),
                          !.len = @ - 1]
    /\ refRet' = Some(refSeq[index + 1])
    /\ refSeq' = RefRemove(refSeq, index)
    /\ VecFrame

\* PageVec::swap_remove, page_vec.rs:152-175, with index < len
VecSwapRemove(index) ==
    /\ vec.status = "Ok" /\ index < vec.len
    /\ vecRet' = Some(vec.buf[index + 1])
    /\ vec' = [vec EXCEPT !.buf[index + 1] = vec.buf[vec.len], !.len = @ - 1]
    /\ refRet' = Some(refSeq[index + 1])
    /\ refSeq' = RefFront([refSeq EXCEPT ![index + 1] = refSeq[Len(refSeq)]])
    /\ VecFrame

\* PageVec::truncate, page_vec.rs:98-115
VecTruncate(len) ==
    /\ vec.status = "Ok"
    /\ vec' = Truncated(vec, len)
    /\ refSeq' = RefTruncate(refSeq, len)
    /\ vecRet' = None /\ refRet' = None
    /\ VecFrame

\* PageVec::clear, page_vec.rs:368-370
VecClear ==
    /\ vec.status = "Ok"
    /\ vec' = Truncated(vec, 0)
    /\ refSeq' = << >>
    /\ vecRet' = None /\ refRet' = None
    /\ VecFrame

\* PageVec::resize, page_vec.rs:406-414, and extend_with, 458-484
VecResize(new_len, value, allocOk) ==
    /\ AllocatorAsked(vec, IF new_len > vec.len THEN new_len - vec.len ELSE 0, allocOk)
    /\ IF new_len > vec.len
       THEN LET r == Reserved(vec, new_len - vec.len, allocOk)
            IN  /\ vec' = IF r.status = "Ok"
                          THEN Filled(r, RefRepeat(new_len - vec.len, value)) ELSE r
                /\ refSeq' = RefAfter(r, refSeq \o RefRepeat(new_len - vec.len, value))
       ELSE /\ vec' = Truncated(vec, new_len)
            /\ refSeq' = RefTruncate(refSeq, new_len)
    /\ vecRet' = None /\ refRet' = None
    /\ VecFrame

\* the loop of retain, page_vec.rs:251-257, with f(x) = (x # k)
RECURSIVE RetainLoop(_, _, _, _, _)
RetainLoop(b, i, del, len, k) ==
    IF i >= len THEN [buf |-> b, del |-> del]
    ELSE IF b[i + 1] = k THEN RetainLoop(b, i + 1, del + 1, len, k)
    ELSE IF del > 0 THEN RetainLoop(Swap(b, i - del, i), i + 1, del, len, k)
    ELSE RetainLoop(b, i + 1, del, len, k)

\* PageVec::retain, page_vec.rs:242-262
VecRetain(k) ==
    /\ vec.status = "Ok"
    /\ LET r == RetainLoop(vec.buf, 0, 0, vec.len, k)
       IN  vec' = IF r.del > 0
                  THEN Truncated([vec EXCEPT !.buf = r.buf], vec.len - r.del)
                  ELSE [vec EXCEPT !.buf = r.buf]
    /\ refSeq' = RefRetain(refSeq, k)
    /\ vecRet' = None /\ refRet' = None
    /\ VecFrame

\* the loop of dedup_by, page_vec.rs:304-315, with same_bucket(a, b) = (a = b)
RECURSIVE DedupLoop(_, _, _, _)
DedupLoop(b, next_read, next_write, len) ==
    IF next_read >= len THEN [buf |-> b, next_write |-> next_write]
    ELSE IF b[next_read + 1] # b[next_write]
    THEN DedupLoop(IF next_read # next_write THEN Swap(b, next_read, next_write) ELSE b,
                   next_read + 1, next_write + 1, len)
    ELSE DedupLoop(b, next_read + 1, next_write, len)

\* PageVec::dedup, page_vec.rs:521-523, and dedup_by, 273-322
VecDedup ==
    /\ vec.status = "Ok"
    /\ LET r == DedupLoop(vec.buf, 1, 1, vec.len)
       IN  vec' = IF vec.len <= 1 THEN vec
                  ELSE Truncated([vec EXCEPT !.buf = r.buf], r.next_write)
    /\ refSeq' = RefDedup(refSeq)
    /\ vecRet' = None /\ refRet' = None
    /\ VecFrame

\* PageVec::append, page_vec.rs:351-365, other holding the items
VecAppend(items, allocOk) ==
    /\ vec.len + Len(items) <= MaxVecLen
    /\ AllocatorAsked(vec, Len(items), allocOk)
    /\ LET r == Reserved(vec, Len(items), allocOk)
       IN  /\ vec' = IF r.status = "Ok" THEN Filled(r, items) ELSE r
           /\ refSeq' = RefAfter(r, refSeq \o items)
    /\ vecRet' = None /\ refRet' = None
    /\ VecFrame

\* the loop of extend_desugared, page_vec.rs:674-685; size_hint gives the
\* number of items left
RECURSIVE ExtendLoop(_, _, _)
ExtendLoop(v, items, allocOk) ==
    IF items = << >> \/ v.status # "Ok" THEN v
    ELSE LET r == IF v.len = Len(v.buf) THEN Reserved(v, Len(items), allocOk) ELSE v
         IN  IF r.status # "Ok" THEN r
             ELSE ExtendLoop(Filled(r, <<Head(items)>>), Tail(items), allocOk)

\* Extend::extend, page_vec.rs:656-686
VecExtend(items, allocOk) ==
    /\ vec.len + Len(items) <= MaxVecLen
    /\ AllocatorAsked(vec, IF Len(vec.buf) - vec.len < Len(items) THEN Len(items) ELSE 0,
                      allocOk)
    /\ vec' = ExtendLoop(vec, items, allocOk)
    /\ refSeq' = RefAfter(vec', refSeq \o items)
    /\ vecRet' = None /\ refRet' = None
    /\ VecFrame

\* PageVec::reserve, page_vec.rs:81-83
VecReserve(additional, allocOk) ==
    /\ AllocatorAsked(vec, additional, allocOk)
    /\ vec' = Reserved(vec, additional, allocOk)
    /\ UNCHANGED refSeq
    /\ vecRet' = None /\ refRet' = None
    /\ VecFrame

\* PageVec::shrink_to_fit, page_vec.rs:89-96, and RawVec::shrink,
\* raw_vec.rs:332-353
VecShrinkToFit(allocOk) ==
    /\ AllocatorAsked(vec, IF Len(vec.buf) > vec.len THEN Len(vec.buf) + 1 ELSE 0, allocOk)
    /\ vec' = IF Len(vec.buf) > vec.len
              THEN IF allocOk THEN [vec EXCEPT !.buf = Shrunk(@, vec.len)]
                   ELSE OnAllocError(vec)
              ELSE vec
    /\ UNCHANGED refSeq
    /\ vecRet' = None /\ refRet' = None
    /\ VecFrame

PageVecNext ==
    \/ \E x \in Values, allocOk \in BOOLEAN : VecPush(x, allocOk)
    \/ VecPop
    \/ \E index \in 0..MaxVecLen, x \in Values, allocOk \in BOOLEAN :
          VecInsert(index, x, allocOk)
    \/ \E index \in 0..MaxVecLen : VecRemove(index)
    \/ \E index \in 0..MaxVecLen : VecSwapRemove(index)
    \/ \E len \in 0..MaxVecLen : VecTruncate(len)
    \/ VecClear
    \/ \E new_len \in 0..MaxVecLen, value \in Values, allocOk \in BOOLEAN :
          VecResize(new_len, value, allocOk)
    \/ \E k \in Values : VecRetain(k)
    \/ VecDedup
    \/ \E items \in Items, allocOk \in BOOLEAN : VecAppend(items, allocOk)
    \/ \E items \in Items, allocOk \in BOOLEAN : VecExtend(items, allocOk)
    \/ \E additional \in ReserveAmounts, allocOk \in BOOLEAN :
          VecReserve(additional, allocOk)
    \/ \E allocOk \in BOOLEAN : VecShrinkToFit(allocOk)

\* ====================================================================
\* Part 7: PTraceDumper::suspend_threads and resume_threads
\*         (linux/ptrace_dumper.rs)
\* ====================================================================
\* The threads found by enumerate_threads have the ids 1..n.  attached is
\* the set of threads this process traces.  PTRACE_DETACH of a thread that
\* is in a ptrace stop succeeds unless the thread has died, and then the
\* thread is not traced either; after an interrupted waitpid the thread may
\* not have stopped yet and a failed detach leaves it traced.
MaxTids == 2

Tids == 1..MaxTids
WaitOutcomes == {"stopped", "EINTR", "error"}

\* PTraceDumper::new and enumerate_threads, ptrace_dumper.rs:304-322, 375-399
InitTracer(counts) ==
    /\ \E n \in counts : dumper = [threads |-> [i \in 1..n |-> Some(i)],
                                   threads_suspended |-> FALSE]
    /\ attached = {}
    /\ tr = [pc |-> "idle", idx |-> 0, all_threads_resumed |-> TRUE,
             issued |-> {}, failed |-> {}, dropped |-> << >>, before |-> {},
             result |-> "none"]

\* the thread the loop is at
Tid == dumper.threads[tr.idx][1]

\* the loops skip the entries that are None
RECURSIVE NextSome(_, _)
NextSome(threads, i) ==
    IF i > Len(threads) THEN i
    ELSE IF threads[i] # None THEN i
    ELSE NextSome(threads, i + 1)

\* suspend_threads, ptrace_dumper.rs:577-581
AnyValid_strict(threads) == \A i \in 1..Len(threads) : threads[i] # None
AnyValid(threads) == \E i \in 1..Len(threads) : threads[i] # None

\* the loop of suspend_threads moving on, ptrace_dumper.rs:564-581; a thread
\* suspend_thread returned false for becomes None
SuspendAdvance(kept, why) ==
    LET threads == IF kept THEN dumper.threads
                   ELSE [dumper.threads EXCEPT ![tr.idx] = None]
        next == NextSome(threads, tr.idx + 1)
        done == next > Len(threads)
    IN  /\ dumper' = [threads |-> threads,
                      threads_suspended |-> IF done THEN TRUE ELSE dumper.threads_suspended]
        /\ tr' = [tr EXCEPT
                    !.dropped = IF kept THEN @ ELSE (Tid :> why) @@ @,
                    !.idx = next,
                    !.pc = IF done THEN "idle" ELSE "attach",
                    !.result = IF ~done THEN @
                               ELSE IF AnyValid(threads) THEN "Ok" ELSE "NoValidThreads"]

TracerFrame ==
    UNCHANGED <<dispatcherVars, cfgVars, bhVars, mdVars, fwApiVars, paVars, vecVars,
                linesVars, elfVars, mapsVars, tlistVars, stackVars,
                auxvVars>>

\* suspend_threads entered, ptrace_dumper.rs:492-495 and, with no thread to
\* visit, 575-581
SuspendThreads ==
    /\ tr.pc = "idle"
    /\ IF dumper.threads_suspended
       THEN /\ tr' = [tr EXCEPT !.result = "Ok", !.before = attached]
            /\ UNCHANGED dumper
       ELSE LET first == NextSome(dumper.threads, 1)
                done == first > Len(dumper.threads)
            IN  /\ tr' = [tr EXCEPT !.pc = IF done THEN "idle" ELSE "attach",
                                    !.idx = first,
                                    !.dropped = << >>,
                                    !.before = attached,
                                    !.result = IF done THEN "NoValidThreads" ELSE "running"]
                /\ dumper' = [dumper EXCEPT !.threads_suspended = done]
    /\ UNCHANGED attached
    /\ TracerFrame

\* suspend_thread, ptrace_dumper.rs:501-512: PTRACE_ATTACH
SuspendAttach(ok) ==
    /\ tr.pc = "attach"
    /\ IF ok
       THEN /\ attached' = attached \cup {Tid}
            /\ tr' = [tr EXCEPT !.pc = "wait"]
            /\ UNCHANGED dumper
       ELSE /\ SuspendAdvance(FALSE, "attach")
            /\ UNCHANGED attached
    /\ TracerFrame

\* suspend_thread, ptrace_dumper.rs:514-524: one turn of the waitpid loop
SuspendWait(outcome, detached) ==
    /\ tr.pc = "wait"
    /\ outcome = "EINTR" \/ detached
    /\ CASE outcome = "stopped" ->
               /\ tr' = [tr EXCEPT !.pc = "regs"]
               /\ UNCHANGED <<dumper, attached>>
         [] outcome = "EINTR" ->
               /\ attached' = IF detached THEN attached \ {Tid} ELSE attached
               /\ SuspendAdvance(FALSE, "EINTR")
         [] outcome = "error" ->
               UNCHANGED <<dumper, attached, tr>>
    /\ TracerFrame

\* suspend_thread, ptrace_dumper.rs:535-561: PTRACE_GETREGS and the test of
\* the stack pointer
SuspendRegs(grsuc, rsp) ==
    /\ tr.pc = "regs"
    /\ IF ~grsuc \/ rsp = 0
       THEN /\ attached' = attached \ {Tid}
            /\ SuspendAdvance(FALSE, IF grsuc THEN "sp" ELSE "regs")
       ELSE /\ SuspendAdvance(TRUE, "")
            /\ UNCHANGED attached
    /\ TracerFrame

\* resume_threads, ptrace_dumper.rs:591-598
AllResumed_last(all, ok) == ok
AllResumed(all, ok) == all /\ ok

\* resume_threads leaving its loop, ptrace_dumper.rs:601-607
ResumeResult(all) == IF all THEN "Ok" ELSE "AllThreadsNotResumed"

\* resume_threads entered, ptrace_dumper.rs:584-590 and, with no thread to
\* visit, 601-607
ResumeThreads ==
    /\ tr.pc = "idle"
    /\ IF ~dumper.threads_suspended
       THEN /\ tr' = [tr EXCEPT !.result = "ThreadsNotSuspended", !.issued = {},
                                !.failed = {}, !.before = attached]
            /\ UNCHANGED dumper
       ELSE LET first == NextSome(dumper.threads, 1)
                done == first > Len(dumper.threads)
            IN  /\ tr' = [tr EXCEPT !.pc = IF done THEN "idle" ELSE "detach",
                                    !.idx = first,
                                    !.all_threads_resumed = TRUE,
                                    !.issued = {}, !.failed = {},
                                    !.before = attached,
                                    !.result = IF done THEN ResumeResult(TRUE) ELSE "running"]
                /\ dumper' = [dumper EXCEPT !.threads_suspended = ~done]
    /\ UNCHANGED attached
    /\ TracerFrame

\* resume_threads, ptrace_dumper.rs:590-607: PTRACE_DETACH of one thread and,
\* after the last one, the end of the call
ResumeDetach(ok) ==
    /\ tr.pc = "detach"
    /\ attached' = attached \ {Tid}
    /\ LET next == NextSome(dumper.threads, tr.idx + 1)
           done == next > Len(dumper.threads)
           all == AllResumed(tr.all_threads_resumed, ok)
       IN  /\ tr' = [tr EXCEPT !.all_threads_resumed = all,
                               !.issued = @ \cup {Tid},
                               !.failed = IF ok THEN @ ELSE @ \cup {Tid},
                               !.idx = next,
                               !.pc = IF done THEN "idle" ELSE "detach",
                               !.result = IF done THEN ResumeResult(all) ELSE @]
           /\ dumper' = [dumper EXCEPT !.threads_suspended = IF done THEN FALSE ELSE @]
    /\ TracerFrame

TracerNext ==
    \/ SuspendThreads
    \/ \E ok \in BOOLEAN : SuspendAttach(ok)
    \/ \E outcome \in WaitOutcomes, detached \in BOOLEAN : SuspendWait(outcome, detached)
    \/ \E grsuc \in BOOLEAN, rsp \in {0, 1} : SuspendRegs(grsuc, rsp)
    \/ ResumeThreads
    \/ \E ok \in BOOLEAN : ResumeDetach(ok)

\* ====================================================================
\* Part 8: LineReader (breakpad-handler/src/utils/line_reader.rs)
\* ====================================================================
\* the capacity of the buffer, the const parameter N of LineReader<R, N>
N == 3

\* the longest input the inner reader holds
MaxInput == 4

\* the calls of next() that return None
MaxNones == 2

Newline == 10

\* b'\n' and two other bytes
InputBytes == {Newline, 97, 98}

RECURSIVE SeqsUpTo(_, _)
SeqsUpTo(S, n) ==
    IF n = 0 THEN {<< >>}
    ELSE LET shorter == SeqsUpTo(S, n - 1)
         IN  shorter \cup {Append(s, b) : s \in {t \in shorter : Len(t) = n - 1}, b \in S}

\* LineReader::new, line_reader.rs:16-24, over a reader that holds data
InitLines(inputs) ==
    /\ inner \in [data : inputs, pos : {0}]
    /\ reader = [buf |-> [j \in 1..N |-> 0], cursor |-> 0, filled |-> 0, eof |-> FALSE]
    /\ it = [pc |-> "idle", yielded |-> << >>, nones |-> 0, failed |-> FALSE]

LinesFrame ==
    UNCHANGED <<dispatcherVars, cfgVars, bhVars, mdVars, fwApiVars, paVars, vecVars,
                tracerVars, elfVars, mapsVars, tlistVars, stackVars,
                auxvVars>>

\* FixedStr::from_slice, fixed_str.rs:18-30, of buf[from..to]
from_slice(b, from, to) ==
    IF to - from > N THEN None ELSE Some([j \in 1..(to - from) |-> b[from + j]])

\* next() returns ret, line_reader.rs:40, 42, 51, 60, 89
LineReturned(i, ret) ==
    [i EXCEPT !.pc = "idle",
              !.yielded = IF ret = None THEN @ ELSE Append(@, ret[1]),
              !.nones = IF ret = None THEN @ + 1 ELSE @]

\* the first i in cursor..filled with buf[i] == b'\n', line_reader.rs:46-48;
\* filled when there is none
FirstNewline(r) ==
    LET found == {i \in r.cursor..(r.filled - 1) : r.buf[i + 1] = Newline}
    IN  IF found = {} THEN r.filled ELSE CHOOSE i \in found : \A j \in found : i <= j

\* count bytes copied one at a time from src to dst, lowest address first
RECURSIVE CopyAscending(_, _, _, _, _)
CopyAscending(b, src, dst, count, k) ==
    IF k >= count THEN b
    ELSE CopyAscending([b EXCEPT ![dst + k + 1] = b[src + k + 1]], src, dst, count, k + 1)

\* count bytes copied one at a time from src to dst, highest address first
RECURSIVE CopyDescending(_, _, _, _, _)
CopyDescending(b, src, dst, count, k) ==
    IF k = 0 THEN b
    ELSE CopyDescending([b EXCEPT ![dst + k] = b[src + k]], src, dst, count, k - 1)

\* ptr::copy_nonoverlapping(src, dst, count), line_reader.rs:65-69: the
\* buffers it may leave.  Its contract requires the two regions not to
\* overlap; when they do the behaviour is undefined, and the copy comes out
\* as the bytes moved in ascending or in descending order of address.
CopyNonoverlapping(b, src, dst, count) ==
    IF src + count <= dst \/ dst + count <= src
    THEN {CopyAscending(b, src, dst, count, 0)}
    ELSE {CopyAscending(b, src, dst, count, 0), CopyDescending(b, src, dst, count, count)}

\* what read(&mut buf[filled..]) may return Ok, line_reader.rs:79: 0 at the
\* end of the data and into an empty slice, else any number of bytes up to
\* those left and the room
ReadSizes ==
    LET left == Len(inner.data) - inner.pos
        room == N - reader.filled
    IN  IF left = 0 \/ room = 0 THEN {0} ELSE 1..(IF left < room THEN left ELSE room)

\* a single line is too long to fit, line_reader.rs:58-59
TooLong_never(r) == FALSE
TooLong(r) == r.cursor = 0 /\ r.filled = N

\* next() called, line_reader.rs:30-33
LineNext ==
    /\ it.pc = "idle"
    /\ it.nones < MaxNones
    /\ it' = IF reader.eof THEN LineReturned(it, None) ELSE [it EXCEPT !.pc = "loop"]
    /\ UNCHANGED <<reader, inner>>
    /\ LinesFrame

\* the loop body down to the read, line_reader.rs:36-77
LineScan(moved) ==
    /\ it.pc = "loop"
    /\ LET i == FirstNewline(reader)
           remaining == reader.filled - reader.cursor
       IN  IF reader.eof
           THEN /\ moved = reader.buf
                /\ reader' = [reader EXCEPT !.cursor = reader.filled]
                /\ it' = LineReturned(it, IF reader.cursor < reader.filled
                                             THEN from_slice(reader.buf, reader.cursor,
                                                             reader.filled)
                                             ELSE None)
           ELSE IF i < reader.filled
           THEN /\ moved = reader.buf
                /\ reader' = [reader EXCEPT !.cursor = i + 1]
                /\ it' = LineReturned(it, from_slice(reader.buf, reader.cursor, i))
           ELSE IF reader.cursor < reader.filled
           THEN IF TooLong(reader)
                THEN /\ moved = reader.buf
                     /\ it' = LineReturned(it, None)
                     /\ UNCHANGED reader
                ELSE /\ moved \in CopyNonoverlapping(reader.buf, reader.cursor, 0, remaining)
                     /\ reader' = [reader EXCEPT !.buf = moved, !.filled = remaining,
                                                 !.cursor = 0]
                     /\ it' = [it EXCEPT !.pc = "read"]
           ELSE /\ moved = reader.buf
                /\ reader' = [reader EXCEPT !.filled = 0, !.cursor = 0]
                /\ it' = [it EXCEPT !.pc = "read"]
    /\ UNCHANGED inner
    /\ LinesFrame

\* read returned Ok(read), line_reader.rs:79-88
LineRead(read) ==
    /\ it.pc = "read"
    /\ read \in ReadSizes
    /\ inner' = [inner EXCEPT !.pos = @ + read]
    /\ reader' = IF read = 0 THEN [reader EXCEPT !.eof = TRUE]
                 ELSE [reader EXCEPT
                         !.buf = [j \in 1..N |->
                                    IF j > reader.filled /\ j <= reader.filled + read
                                    THEN inner.data[inner.pos + j - reader.filled]
                                    ELSE @[j]],
                         !.filled = @ + read]
    /\ it' = [it EXCEPT !.pc = "loop"]
    /\ LinesFrame

\* read returned Err, line_reader.rs:89
LineReadFailed ==
    /\ it.pc = "read"
    /\ it' = [LineReturned(it, None) EXCEPT !.failed = TRUE]
    /\ UNCHANGED <<reader, inner>>
    /\ LinesFrame

LineReaderNext ==
    \/ LineNext
    \/ \E moved \in [1..N -> InputBytes \cup {0}] : LineScan(moved)
    \/ \E read \in 0..N : LineRead(read)
    \/ LineReadFailed

\* ====================================================================
\* Part 9: ElfId (breakpad-handler/src/linux/elf.rs)
\* ====================================================================
\* An image is the byte slice handed to from_mapped_file, kept as what its
\* bytes decode to:
\*   size                    the length of the slice
\*   magic                   whether its first four bytes are ELFMAG
\*   class                   the byte at offset 4
\*   phoff, phnum, shoff, shnum, shstrndx
\*                           the fields of the header
\*   ph                      the program headers at phoff: p_type, p_offset,
\*                           p_filesz, and body, the bytes at p_offset
\*   sh                      the section headers at shoff: name, the bytes
\*                           of the name table from sh_name on, as a
\*                           sequence of pieces; sh_type, sh_offset,
\*                           sh_size, and body, the bytes at sh_offset
ELFCLASS32 == 1
ELFCLASS64 == 2
PT_NOTE == 4
SHT_NULL == 0
SHT_PROGBITS == 1
SHT_STRTAB == 3
SHT_NOTE == 7
NT_GNU_BUILD_ID == 3
MAX_ID_SIZE == 64
IdentifierSize == 16
FirstPageSize == 4 * 1024

\* the longest build-id a note of the images carries is MAX_ID_SIZE plus this
MaxOverlong == 1

SIZEOF_EHDR(class) == IF class = ELFCLASS32 THEN 52 ELSE 64
SIZEOF_PHDR(class) == IF class = ELFCLASS32 THEN 32 ELSE 56
SIZEOF_SHDR(class) == IF class = ELFCLASS32 THEN 40 ELSE 64

Panicked == [k |-> "Panic", id |-> << >>]
Faulted == [k |-> "Fault", id |-> << >>]
NoId == [k |-> "None", id |-> << >>]
SomeId(bytes) == [k |-> "Some", id |-> bytes]
NotCalled == [k |-> "NotCalled", id |-> << >>]

Align4(n) == IF n % 4 = 0 THEN n ELSE n + 4 - (n % 4)

\* a is a bit pattern below 256, as is b
RECURSIVE Xor(_, _)
Xor(a, b) ==
    IF a = 0 THEN b
    ELSE IF b = 0 THEN a
    ELSE ((a + b) % 2) + 2 * Xor(a \div 2, b \div 2)

\* this.gread_with::<u32>(offset, le), elf.rs:358-362, little-endian
U32(b, off) ==
    b[off + 1] + 256 * b[off + 2] + 65536 * b[off + 3] + 16777216 * b[off + 4]

U32Bytes(n) ==
    <<n % 256, (n \div 256) % 256, (n \div 65536) % 256, (n \div 16777216) % 256>>

Zeros(n) == [j \in 1..n |-> 0]

IsPrefix(s, t) == Len(s) <= Len(t) /\ s = SubSeq(t, 1, Len(s))

\* ElfNote::try_from_ctx, elf.rs:342-372, on the bytes of b from off on:
\* ok is FALSE when a read runs past the end
ElfNoteAt(b, off) ==
    LET len == Len(b) - off
        name_size == U32(b, off)
        desc_size == U32(b, off + 4)
        desc_at == Align4(12 + name_size)
    IN  IF len < 12 \/ desc_at + desc_size > len
        THEN [ok |-> FALSE, kind |-> 0, description |-> << >>, size |-> 0]
        ELSE [ok |-> TRUE,
              kind |-> U32(b, off + 8),
              description |-> SubSeq(b, off + desc_at + 1, off + desc_at + desc_size),
              size |-> Align4(desc_at + desc_size)]

\* ElfId::new, elf.rs:233-244
ElfIdNew(slice) == IF Len(slice) <= MAX_ID_SIZE THEN SomeId(slice) ELSE NoId

\* build_id_from_note, elf.rs:375-384, with offset at off
RECURSIVE NoteLoop_any(_, _), NoteLoop(_, _)
NoteLoop_any(b, off) ==
    LET note == ElfNoteAt(b, off)
    IN  IF off >= Len(b) \/ ~note.ok THEN NoId
        ELSE IF ElfIdNew(note.description).k = "Some"
        THEN ElfIdNew(note.description)
        ELSE NoteLoop_any(b, off + note.size)
NoteLoop(b, off) ==
    LET note == ElfNoteAt(b, off)
    IN  IF off >= Len(b) \/ ~note.ok THEN NoId
        ELSE IF note.kind = NT_GNU_BUILD_ID /\ ElfIdNew(note.description).k = "Some"
        THEN ElfIdNew(note.description)
        ELSE NoteLoop(b, off + note.size)

build_id_from_note(note_section) == NoteLoop(note_section, 0)

\* &data[from..to], the slice or the panic of an index out of range
InRange(img, from, to) == from <= to /\ to <= img.size

\* MappedElf::read, elf.rs:14-41
MappedElfRead(img) ==
    IF img.size < 4 THEN Panicked
    ELSE IF ~img.magic THEN NoId
    ELSE IF img.size < 5 THEN NoId
    ELSE IF img.class \notin {ELFCLASS32, ELFCLASS64} THEN NoId
    ELSE IF img.size < SIZEOF_EHDR(img.class) THEN NoId
    ELSE SomeId(<< >>)

\* the loop of from_mapped_file over iter_segments(PT_NOTE), elf.rs:253-257
\* with PHIter::next, elf.rs:144-157, from index on
RECURSIVE SegmentLoop(_, _)
SegmentLoop(img, index) ==
    IF index >= img.phnum THEN NoId
    ELSE LET hdr == img.ph[index + 1]
         IN  IF hdr.p_type # PT_NOTE THEN SegmentLoop(img, index + 1)
             ELSE IF ~InRange(img, hdr.p_offset, hdr.p_offset + hdr.p_filesz) THEN Panicked
             ELSE IF build_id_from_note(hdr.body).k = "Some"
             THEN build_id_from_note(hdr.body)
             ELSE SegmentLoop(img, index + 1)

\* iter_segments, elf.rs:168-191, and the loop over it
iter_segments(img) ==
    IF ~InRange(img, img.phoff, img.phoff + SIZEOF_PHDR(img.class) * img.phnum)
    THEN Panicked
    ELSE SegmentLoop(img, 0)

\* name == section_name, elf.rs:64-70: the bytes of the name table from
\* sh_name on begin with name
SectionNamed_type_only(sh, name, kind) == sh.sh_type = kind
SectionNamed(sh, name, kind) == sh.sh_type = kind /\ IsPrefix(name, sh.name)

\* find_section_by_name, elf.rs:43-90: the section found, or why there is
\* none.  from_raw_parts does not check that the table lies within the
\* slice; a table that does not is read from whatever follows the slice,
\* which faults or reads as raw says
find_section_by_name(img, name, kind, raw) ==
    LET found == {i \in 1..img.shnum : SectionNamed(img.sh[i], name, kind)}
        first == CHOOSE i \in found : \A j \in found : i <= j
        names == img.sh[img.shstrndx + 1]
    IN  IF img.shoff = 0 THEN [k |-> "None", body |-> << >>]
        ELSE IF ~InRange(img, img.shoff, img.shoff + SIZEOF_SHDR(img.class) * img.shnum)
                /\ raw = "fault"
        THEN [k |-> "Fault", body |-> << >>]
        ELSE IF img.shstrndx >= img.shnum THEN [k |-> "Panic", body |-> << >>]
        ELSE IF ~InRange(img, names.sh_offset, names.sh_offset + names.sh_size)
        THEN [k |-> "Panic", body |-> << >>]
        ELSE IF found = {} THEN [k |-> "None", body |-> << >>]
        ELSE IF ~InRange(img, img.sh[first].sh_offset,
                         img.sh[first].sh_offset + img.sh[first].sh_size)
        THEN [k |-> "Panic", body |-> << >>]
        ELSE [k |-> "Some", body |-> img.sh[first].body]

\* the fold of hash_text_section, elf.rs:403-407: byte j of the identifier,
\* the exclusive or of byte j of the chunks lo..hi-1 of chunks_exact(16),
\* taken by halves
RECURSIVE Folded(_, _, _, _)
Folded_first(first_page, j, lo, hi) ==
    IF hi <= lo THEN 0 ELSE first_page[lo * IdentifierSize + j]
Folded(first_page, j, lo, hi) ==
    IF hi <= lo THEN 0
    ELSE IF hi = lo + 1 THEN first_page[lo * IdentifierSize + j]
    ELSE LET mid == (lo + hi) \div 2
         IN  Xor(Folded(first_page, j, lo, mid), Folded(first_page, j, mid, hi))

\* hash_text_section, elf.rs:387-410
hash_text_section(img, raw) ==
    LET text_section == find_section_by_name(img, <<".text">>, SHT_PROGBITS, raw)
        first_page == SubSeq(text_section.body, 1,
                             IF Len(text_section.body) < FirstPageSize
                             THEN Len(text_section.body) ELSE FirstPageSize)
    IN  IF text_section.k = "Fault" THEN Faulted
        ELSE IF text_section.k # "Some" THEN Panicked
        ELSE ElfIdNew([j \in 1..IdentifierSize |->
                         Folded(first_page, j, 0, Len(first_page) \div IdentifierSize)])

\* ElfId::from_mapped_file, elf.rs:246-267
from_mapped_file(img, raw) ==
    LET segments == iter_segments(img)
        id_sec == find_section_by_name(img, <<".note.gnu.build-id">>, SHT_NOTE, raw)
    IN  IF MappedElfRead(img).k # "Some" THEN Panicked
        ELSE IF segments.k # "None" THEN segments
        ELSE IF id_sec.k = "Fault" THEN Faulted
        ELSE IF id_sec.k = "Panic" THEN Panicked
        ELSE IF id_sec.k = "Some" /\ build_id_from_note(id_sec.body).k = "Some"
        THEN build_id_from_note(id_sec.body)
        ELSE hash_text_section(img, raw)

\* ---- the images ----
\* Notes::add_note, synth-elf/tests/notes.rs:19-44: the name with its
\* terminator, the sizes and the type as 32-bit words, name and
\* description each padded to a multiple of four bytes
add_note(kind, name, desc) ==
    U32Bytes(Len(name) + 1) \o U32Bytes(Len(desc)) \o U32Bytes(kind)
    \o name \o Zeros(Align4(Len(name) + 1) - Len(name))
    \o desc \o Zeros(Align4(Len(desc)) - Len(desc))

\* Populate::populate, elf.rs:424-431
populate(count, prime) == [j \in 1..count |-> (((j - 1) % prime) % 256)]

GNU == <<71, 78, 85>>
Linux == <<76, 105, 110, 117, 120>>

\* (0..n).collect(), elf.rs:528, 556, from a first byte on
BuildId(n, from) == [j \in 1..n |-> (from + j - 1) % 256]

Note(kind, name, desc) == [kind |-> kind, name |-> name, desc |-> desc]

\* the other note of test pt_note, elf.rs:561
OtherNote == Note(0, Linux, <<66, 2, 0, 0>>)

GnuBuildId(n, from) == Note(NT_GNU_BUILD_ID, GNU, BuildId(n, from))

\* the lengths of the build-ids
IdLens == {0, 4, 20, 32, MAX_ID_SIZE, MAX_ID_SIZE + MaxOverlong}

\* the notes of a section or segment: none, another note, a build-id,
\* another note and then a build-id, a build-id too long and then one
\* that is not
NoteLists ==
    {<< >>, <<OtherNote>>}
    \cup {<<GnuBuildId(n, 0)>> : n \in IdLens}
    \cup {<<OtherNote, GnuBuildId(20, 100)>>}
    \cup {<<GnuBuildId(MAX_ID_SIZE + MaxOverlong, 0), GnuBuildId(4, 50)>>}

\* Notes::finish: the notes one after the other
RECURSIVE Notes(_)
Notes(list) ==
    IF list = << >> THEN << >>
    ELSE add_note(list[1].kind, list[1].name, list[1].desc) \o Notes(Tail(list))

\* the .text sections: those of test unique_hashes, one that goes on past
\* the first page, short ones
TextBodies ==
    {populate(FirstPageSize, 17), populate(FirstPageSize, 31),
     populate(FirstPageSize + IdentifierSize, 17),
     populate(2 * IdentifierSize, IdentifierSize), populate(2 * IdentifierSize, 1),
     populate(IdentifierSize, 5), populate(IdentifierSize - 1, 5), populate(0, 1)}

\* Elf::finish, synth-elf/src/lib.rs:387-441, for parts, each a section
\* with its name, type and body, and seg telling whether a PT_NOTE segment
\* covers it: the header, the program headers, the bodies each padded to
\* four bytes, the section headers
RECURSIVE OffsetOf(_, _, _)
OffsetOf(secs, i, start) ==
    IF i = 1 THEN start
    ELSE OffsetOf(secs, i - 1, start) + Align4(Len(secs[i - 1].body))

Finish(class, parts) ==
    LET secs == <<[name |-> <<"">>, sh_type |-> SHT_NULL, body |-> << >>, seg |-> FALSE]>>
                \o parts
                \o <<[name |-> <<".shstrtab">>, sh_type |-> SHT_STRTAB,
                      body |-> Zeros(Len(parts) * 20 + 11), seg |-> FALSE]>>
        segs == {i \in 1..Len(secs) : secs[i].seg}
        phnum == Cardinality(segs)
        start == SIZEOF_EHDR(class) + SIZEOF_PHDR(class) * phnum
        Header(i) == [name |-> secs[i].name, sh_type |-> secs[i].sh_type,
                      sh_offset |-> IF secs[i].sh_type = SHT_NULL THEN 0
                                    ELSE OffsetOf(secs, i, start),
                      sh_size |-> Len(secs[i].body), body |-> secs[i].body]
        RECURSIVE Segments(_)
        Segments(i) ==
            IF i > Len(secs) THEN << >>
            ELSE (IF secs[i].seg
                  THEN <<[p_type |-> PT_NOTE, p_offset |-> Header(i).sh_offset,
                          p_filesz |-> Align4(Len(secs[i].body)),
                          body |-> secs[i].body \o Zeros(Align4(Len(secs[i].body))
                                                         - Len(secs[i].body))]>>
                  ELSE << >>) \o Segments(i + 1)
        shoff == OffsetOf(secs, Len(secs) + 1, start)
    IN  [size |-> shoff + SIZEOF_SHDR(class) * Len(secs),
         magic |-> TRUE, class |-> class,
         phoff |-> IF phnum > 0 THEN SIZEOF_EHDR(class) ELSE 0, phnum |-> phnum,
         shoff |-> shoff, shnum |-> Len(secs), shstrndx |-> Len(secs) - 1,
         ph |-> Segments(1),
         sh |-> [i \in 1..Len(secs) |-> Header(i)]]

Section(name, kind, body, seg) == [name |-> name, sh_type |-> kind, body |-> body, seg |-> seg]

Classes == {ELFCLASS32, ELFCLASS64}

\* at most one thing of a set, as a sequence
Maybe(S) == {<< >>} \cup {<<s>> : s \in S}

\* images with nothing but sections of code
TextImages ==
    {Finish(class, <<Section(<<".foo">>, SHT_PROGBITS, populate(32, 5), FALSE),
                     Section(<<".text">>, SHT_PROGBITS, text, FALSE)>>)
        : class \in Classes, text \in TextBodies}

\* an image with a .text section, up to two sections of notes that PT_NOTE
\* segments cover, and a .note.gnu.build-id section or none
NoteImage(class, n1, n2, n3) ==
    Finish(class, <<Section(<<".text">>, SHT_PROGBITS, populate(IdentifierSize, 5), FALSE)>>
                  \o [j \in 1..Len(n1) |-> Section(<<".note1">>, SHT_NOTE, Notes(n1[j]), TRUE)]
                  \o [j \in 1..Len(n2) |-> Section(<<".note2">>, SHT_NOTE, Notes(n2[j]), TRUE)]
                  \o [j \in 1..Len(n3) |->
                        Section(<<".note.gnu.build-id">>, SHT_NOTE, Notes(n3[j]), FALSE)])

FirstNotes == Maybe(NoteLists)
SecondNotes == Maybe({<<OtherNote>>, <<GnuBuildId(4, 200)>>})
SectionNotes ==
    Maybe({<<OtherNote>>, <<GnuBuildId(20, 0)>>, <<GnuBuildId(MAX_ID_SIZE + MaxOverlong, 0)>>})

NoteImages ==
    {NoteImage(class, n1, n2, n3) :
        class \in Classes, n1 \in FirstNotes, n2 \in SecondNotes, n3 \in SectionNotes}

\* slices that are no well-formed image: a good image cut short, with
\* another magic, with another class byte, with its section header table
\* or its name table index out of the slice, without its section headers,
\* and images with neither .text nor build-id
CutSizes == {0, 3, 4, 5, 51, 63, 100}

Malformed ==
    LET good == {Finish(class, <<Section(<<".text">>, SHT_PROGBITS,
                                         populate(IdentifierSize, 5), FALSE)>>
                               \o [j \in 1..Len(n) |-> Section(<<".note1">>, SHT_NOTE, n[j], TRUE)])
                    : class \in Classes,
                      n \in Maybe({Notes(<<GnuBuildId(20, 0)>>)})}
        bare == {Finish(class, [j \in 1..Len(n) |-> Section(<<".note1">>, SHT_NOTE, n[j], TRUE)])
                    : class \in Classes, n \in Maybe({Notes(<<OtherNote>>)})}
    IN  {[g EXCEPT !.size = n] : g \in good, n \in CutSizes}
        \cup {[g EXCEPT !.magic = FALSE] : g \in good}
        \cup {[g EXCEPT !.class = c] : g \in good, c \in {0, 3}}
        \cup {[g EXCEPT !.shoff = g.size + 1] : g \in good}
        \cup {[g EXCEPT !.shstrndx = g.shnum] : g \in good}
        \cup {[g EXCEPT !.shoff = 0] : g \in good}
        \cup {[g EXCEPT !.ph[1].p_filesz = g.size] : g \in good \cap {h \in good : h.phnum > 0}}
        \cup bare

\* the images handed to from_mapped_file: one, or two side by side
InitElf(images) ==
    /\ elf \in images
    /\ elfId = [k \in 1..Len(elf) |-> NotCalled]

ElfFrame ==
    UNCHANGED <<dispatcherVars, cfgVars, bhVars, mdVars, fwApiVars, paVars, vecVars,
                tracerVars, linesVars, mapsVars, tlistVars, stackVars,
                auxvVars>>

\* what a read past the end of the slice does
RawReads == {"fault", "reads"}

\* ElfId::from_mapped_file(elf[k]), elf.rs:246-267
FromMappedFile(k, raw) ==
    /\ k <= Len(elf)
    /\ elfId[k] = NotCalled
    /\ elfId' = [elfId EXCEPT ![k] = from_mapped_file(elf[k], raw)]
    /\ UNCHANGED elf
    /\ ElfFrame

ElfNext ==
    \E k \in 1..2, raw \in RawReads : FromMappedFile(k, raw)

\* ====================================================================
\* Part 10: MappingInfo and enumerate_mappings
\*          (breakpad-handler/src/linux/ptrace_dumper.rs)
\* ====================================================================
\* A line is a sequence of one-character strings.  usize is UsizeBits wide.
UsizeBits == 28
UsizeMax == 2 ^ UsizeBits - 1

\* the capacity of MappingInfo::name, ptrace_dumper.rs:227
NameCapacity == 255

\* the lines of the maps file
MaxMapsLines == 3

HexChars == <<"0", "1", "2", "3", "4", "5", "6", "7", "8", "9", "a", "b", "c", "d", "e", "f">>
UpperHexChars == <<"A", "B", "C", "D", "E", "F">>

\* &s[from..to]
Slice(s, from, to) == SubSeq(s, from + 1, to)

\* s.find(c): the index of the first c, -1 for None
Find(s, c) ==
    LET at == {i \in 1..Len(s) : s[i] = c}
    IN  IF at = {} THEN -1 ELSE (CHOOSE i \in at : \A j \in at : i <= j) - 1

\* char::to_digit(16), -1 for None
ToDigit(c) ==
    IF \E d \in 1..16 : HexChars[d] = c THEN (CHOOSE d \in 1..16 : HexChars[d] = c) - 1
    ELSE IF \E d \in 1..6 : UpperHexChars[d] = c
    THEN (CHOOSE d \in 1..6 : UpperHexChars[d] = c) + 9
    ELSE -1

\* usize::from_str_radix(s, 16): the digits after an optional '+', an error
\* (-1) for no digit, for a character that is none, and for a value that
\* does not fit
RECURSIVE Digits(_, _)
Digits(s, acc) ==
    IF s = << >> THEN acc
    ELSE IF ToDigit(s[1]) < 0 THEN -1
    ELSE IF acc > (UsizeMax - ToDigit(s[1])) \div 16 THEN -1
    ELSE Digits(Tail(s), acc * 16 + ToDigit(s[1]))

from_str_radix(s) ==
    LET digits == IF s # << >> /\ s[1] = "+" THEN Tail(s) ELSE s
    IN  IF digits = << >> THEN -1 ELSE Digits(digits, 0)

InvalidMapping == [k |-> "InvalidMapping"]
ParsePanicked == [k |-> "Panic"]

\* the path of do_parse, ptrace_dumper.rs:256-261
PathOf_bracket(line, end, offset_end) ==
    LET path_start == Find(Slice(line, offset_end, Len(line)), "[")
    IN  IF path_start < 0 THEN << >> ELSE Slice(line, offset_end + path_start, Len(line))
PathOf(line, end, offset_end) ==
    LET path_start == Find(Slice(line, offset_end, Len(line)), "/")
    IN  IF path_start < 0 THEN << >> ELSE Slice(line, offset_end + path_start, Len(line))

\* has_exec of do_parse, ptrace_dumper.rs:250
HasExec(line, end) == Find(Slice(line, end + 1, end + 5), "x") >= 0

\* MappingInfo::from_str, ptrace_dumper.rs:240-275.  checks tells whether
\* the build checks arithmetic for overflow.
from_str(line, checks) ==
    LET dash_ind == Find(line, "-")
        start_addr == from_str_radix(Slice(line, 0, dash_ind))
        space == Find(Slice(line, dash_ind + 1, Len(line)), " ")
        end == space + dash_ind + 1
        end_addr == from_str_radix(Slice(line, dash_ind + 1, end))
        offset_end == Find(Slice(line, end + 6, Len(line)), " ")
        offset == from_str_radix(Slice(line, end + 6, end + 6 + offset_end))
        path == PathOf(line, end, offset_end)
    IN  IF dash_ind < 0 THEN InvalidMapping
        ELSE IF start_addr < 0 THEN InvalidMapping
        ELSE IF space < 0 THEN InvalidMapping
        ELSE IF end_addr < 0 THEN InvalidMapping
        ELSE IF end + 5 > Len(line) THEN ParsePanicked
        ELSE IF end + 6 > Len(line) THEN ParsePanicked
        ELSE IF offset_end < 0 THEN InvalidMapping
        ELSE IF offset < 0 THEN InvalidMapping
        ELSE IF Len(path) > NameCapacity THEN InvalidMapping
        ELSE IF end_addr < start_addr /\ checks THEN ParsePanicked
        ELSE [k |-> "Ok",
              start_addr |-> start_addr,
              size |-> (end_addr - start_addr) % (UsizeMax + 1),
              sys_start_addr |-> start_addr,
              sys_end_addr |-> end_addr,
              offset |-> offset,
              has_exec |-> HasExec(line, end),
              name |-> path]

\* ---- the lines ----
RECURSIVE HexDigits(_)
HexDigits(n) ==
    IF n < 16 THEN <<HexChars[n + 1]>> ELSE Append(HexDigits(n \div 16), HexChars[(n % 16) + 1])

\* %08lx
Hex08(n) == [j \in 1..(8 - Len(HexDigits(n))) |-> "0"] \o HexDigits(n)

Spaces(n) == [j \in 1..n |-> " "]

\* a line as show_map_vma prints it: the range, the permissions, the
\* offset, the device and the inode, and after padding the name if any
MapsLine(start, end, perms, offset, name) ==
    Hex08(start) \o <<"-">> \o Hex08(end) \o <<" ">> \o perms \o <<" ">> \o Hex08(offset)
    \o <<" ", "f", "d", ":", "0", "0", " ", "7", " ">>
    \o (IF name = << >> THEN << >> ELSE Spaces(3) \o name)

Ranges == {<<0, 4096>>, <<4096, 12288>>, <<12288, 16384>>, <<UsizeMax - 4095, UsizeMax>>}
Perms == {<<"r", "w", "-", "p">>, <<"r", "-", "x", "p">>, <<"-", "-", "x", "s">>,
          <<"r", "-", "-", "p">>}
Offsets == {0, 110592}
LibName == <<"/", "l", "i", "b", "/", "a", ".", "s", "o">>
Names == {<< >>, <<"[", "v", "d", "s", "o", "]">>, LibName,
          LibName \o <<" ", "(", "d", "e", "l", "e", "t", "e", "d", ")">>}

WellFormedLines ==
    {MapsLine(r[1], r[2], perms, offset, name) :
        r \in Ranges, perms \in Perms, offset \in Offsets, name \in Names}

\* lines that are no mapping: a good line cut short before the end of its
\* inode, a good line without its '-', with a character that is no digit
\* in an address or in the offset, with an address that does not fit, with
\* the end below the start, with a path longer than the name
CutLine == MapsLine(4096, 12288, <<"r", "-", "x", "p">>, 0, << >>)

MalformedLines ==
    {SubSeq(CutLine, 1, n) : n \in 0..(Len(CutLine) - 3)}
    \cup {[CutLine EXCEPT ![9] = " "], [CutLine EXCEPT ![8] = "g"],
          [CutLine EXCEPT ![17] = "g"], [CutLine EXCEPT ![30] = "g"],
          <<"f">> \o CutLine,
          MapsLine(12288, 4096, <<"r", "-", "x", "p">>, 0, LibName),
          MapsLine(4096, 12288, <<"r", "-", "x", "p">>, 0,
                   [j \in 1..(NameCapacity + 1) |-> IF j = 1 THEN "/" ELSE "a"])}

\* PTraceDumper with the lines its LineReader will yield, and auxv
InitMaps(lineSeqs, gates, entries) ==
    maps \in [lines : lineSeqs, idx : {0}, mappings : {<< >>}, pc : {"lines"},
              parsed : {[k |-> "None"]},
              linux_gate_loc : gates, entry_point_loc : entries]

MapsFrame ==
    UNCHANGED <<dispatcherVars, cfgVars, bhVars, mdVars, fwApiVars, paVars, vecVars,
                tracerVars, linesVars, elfVars, tlistVars, stackVars,
                auxvVars>>

LINUX_GATE_LIBRARY_NAME ==
    <<"l", "i", "n", "u", "x", "-", "g", "a", "t", "e", ".", "s", "o">>

\* the body of the loop of enumerate_mappings for a parsed line,
\* ptrace_dumper.rs:429-456
Enumerated_any_exec(mappings, parsed, gate) ==
    LET nfo == IF gate = Some(parsed.start_addr)
               THEN [parsed EXCEPT !.name = LINUX_GATE_LIBRARY_NAME, !.offset = 0]
               ELSE parsed
        last == mappings[Len(mappings)]
    IN  IF mappings # << >>
           /\ nfo.start_addr = (last.start_addr + last.size) % (UsizeMax + 1)
           /\ nfo.name = last.name
        THEN [mappings EXCEPT ![Len(mappings)] =
                [last EXCEPT !.sys_end_addr = nfo.sys_end_addr,
                             !.size = (nfo.sys_end_addr - last.start_addr) % (UsizeMax + 1),
                             !.has_exec = last.has_exec \/ nfo.has_exec]]
        ELSE Append(mappings, [f \in DOMAIN nfo \ {"k"} |-> nfo[f]])
Enumerated(mappings, parsed, gate) ==
    LET nfo == IF gate = Some(parsed.start_addr)
               THEN [parsed EXCEPT !.name = LINUX_GATE_LIBRARY_NAME, !.offset = 0]
               ELSE parsed
        last == mappings[Len(mappings)]
    IN  IF mappings # << >>
           /\ nfo.start_addr = (last.start_addr + last.size) % (UsizeMax + 1)
           /\ nfo.name = last.name
           /\ (nfo.has_exec = last.has_exec \/ (~last.has_exec /\ nfo.has_exec))
        THEN [mappings EXCEPT ![Len(mappings)] =
                [last EXCEPT !.sys_end_addr = nfo.sys_end_addr,
                             !.size = (nfo.sys_end_addr - last.start_addr) % (UsizeMax + 1),
                             !.has_exec = last.has_exec \/ nfo.has_exec]]
        ELSE Append(mappings, [f \in DOMAIN nfo \ {"k"} |-> nfo[f]])

\* one turn of the loop of enumerate_mappings, ptrace_dumper.rs:425-462
EnumerateLine(checks) ==
    /\ maps.pc = "lines"
    /\ maps.idx < Len(maps.lines)
    /\ LET parsed == from_str(maps.lines[maps.idx + 1], checks)
       IN  maps' = [maps EXCEPT
                      !.parsed = parsed,
                      !.idx = @ + 1,
                      !.pc = IF parsed.k = "Panic" THEN "panicked" ELSE @,
                      !.mappings = IF parsed.k = "Ok"
                                   THEN Enumerated(@, parsed, maps.linux_gate_loc)
                                   ELSE @]
    /\ MapsFrame

\* the mapping of the entry point made the first, ptrace_dumper.rs:468-477
EntryFirst_swapped(mappings, entry) ==
    LET at == {i \in 1..Len(mappings) :
                 /\ entry # None
                 /\ entry[1] >= mappings[i].start_addr
                 /\ entry[1] < mappings[i].start_addr + mappings[i].size}
        entry_pos == CHOOSE i \in at : \A j \in at : i <= j
    IN  IF at = {} \/ entry_pos = 1 THEN mappings
        ELSE [mappings EXCEPT ![1] = mappings[entry_pos], ![entry_pos] = mappings[1]]
EntryFirst(mappings, entry) ==
    LET at == {i \in 1..Len(mappings) :
                 /\ entry # None
                 /\ entry[1] >= mappings[i].start_addr
                 /\ entry[1] < mappings[i].start_addr + mappings[i].size}
        entry_pos == CHOOSE i \in at : \A j \in at : i <= j
    IN  IF at = {} \/ entry_pos = 1 THEN mappings
        ELSE <<mappings[entry_pos]>> \o SubSeq(mappings, 1, entry_pos - 1)
             \o SubSeq(mappings, entry_pos + 1, Len(mappings))

\* the line reader has no more lines, ptrace_dumper.rs:464-479
EnumerateEnd ==
    /\ maps.pc = "lines"
    /\ maps.idx = Len(maps.lines)
    /\ maps' = [maps EXCEPT !.pc = "done",
                            !.mappings = EntryFirst(@, maps.entry_point_loc)]
    /\ MapsFrame

EnumerateNext ==
    \/ \E checks \in BOOLEAN : EnumerateLine(checks)
    \/ EnumerateEnd

\* ====================================================================
\* Part 11: the size limit of write_thread_list and the shortened stacks
\*          of fill_thread_stack (breakpad-handler/src/linux/minidump_writer.rs)
\* ====================================================================
LIMIT_BASE_THREAD_COUNT == 20
LIMIT_AVG_STACK_LEN == 8 * 1024
FUDGE_FACTOR == 64 * 1024
MAX_EXTRA_THREAD_STACK == 2 * 1024

\* the threads of the dumper
MaxListThreads == 22

\* extra_thread_stack_len, minidump_writer.rs:138-156
ExtraThreadStackLen(size_limit, num_threads, position) ==
    IF size_limit = None THEN None
    ELSE LET estimated_total_stack_size == num_threads * num_threads
             estimated_minidump_size == position + estimated_total_stack_size + FUDGE_FACTOR
         IN  IF estimated_minidump_size > size_limit[1]
             THEN Some(MAX_EXTRA_THREAD_STACK)
             ELSE None

\* the loop of fill_thread_stack that walks from the start of the stack in
\* strides of max_len, minidump_writer.rs:289-298
RECURSIVE ChunkWalk(_, _, _)
ChunkWalk(stack_ptr, max_len, stack_pointer) ==
    IF stack_ptr + max_len >= stack_pointer THEN stack_ptr
    ELSE ChunkWalk(stack_ptr + max_len, max_len, stack_pointer)

\* the range of the stack that fill_thread_stack copies,
\* minidump_writer.rs:285-302: stack is None or the range get_stack_info
\* returned
Shortened(stack, max_stack_len, stack_pointer) ==
    IF stack = None THEN None
    ELSE IF max_stack_len # None /\ stack[1].len > max_stack_len[1]
    THEN Some([ptr |-> ChunkWalk(stack[1].ptr, max_stack_len[1], stack_pointer),
               len |-> max_stack_len[1]])
    ELSE stack

\* stack_size_limit of the thread at counter, minidump_writer.rs:168-178,
\* 238-239: none for the crashing thread when the crash context holds its
\* registers, and else the limit from the base thread count on
StackSizeLimit(extra, counter, crashing, has_context) ==
    IF crashing /\ has_context THEN None
    ELSE IF counter >= LIMIT_BASE_THREAD_COUNT THEN extra ELSE None

\* the stacks get_stack_info returns for a stack pointer: a range from
\* its page of at most 32 KiB
ListStackBase == 8 * PAGE_SIZE
ListStacks ==
    {[sp |-> ListStackBase + off, stack |-> st] :
        off \in {0, 8, 2048, 4088},
        st \in {None} \cup {Some([ptr |-> ListStackBase, len |-> l]) :
                              l \in {PAGE_SIZE, 8 * PAGE_SIZE}}}
    \cup {[sp |-> ListStackBase + 8, stack |-> Some([ptr |-> ListStackBase, len |-> l])] :
            l \in {MAX_EXTRA_THREAD_STACK, MAX_EXTRA_THREAD_STACK + 8}}

\* where alloc_raw puts the copy of a stack in the memory of the dumper
CopyAddresses == {ListStackBase, 64 * PAGE_SIZE}

\* the memory kept around the instruction pointer of the crashing thread
IpMemory == [start_of_memory_range |-> 4 * PAGE_SIZE, data_size |-> IP_MEM_SIZE]

\* fill_thread_stack, minidump_writer.rs:272-331, with sanitize_stacks not
\* set: t is the stack pointer of the thread and what get_stack_info gives
\* for it, copy the address of the buffer alloc_raw returns; the result
\* is the stack descriptor of the Thread and the range that was copied
fill_thread_stack(t, max_stack_len, copy) ==
    LET stack == Shortened(t.stack, max_stack_len, t.sp)
    IN  IF stack = None
        THEN [start_of_memory_range |-> t.sp, data_size |-> 0, copied |-> None]
        ELSE [start_of_memory_range |-> copy, data_size |-> stack[1].len,
              copied |-> stack]

InitThreadList(counts, limits, positions, crashed, contexts) ==
    tlist \in [num_threads : counts, size_limit : limits, position : positions,
               crashing : crashed, has_context : contexts,
               pc : {"start"}, extra : {None}, counter : {0},
               thread : {[k |-> "None"]}]

ThreadListFrame ==
    UNCHANGED <<dispatcherVars, cfgVars, bhVars, mdVars, fwApiVars, paVars, vecVars,
                tracerVars, linesVars, elfVars, mapsVars, stackVars,
                auxvVars>>

\* write_thread_list up to its loop, minidump_writer.rs:118-156
WriteThreadListStart ==
    /\ tlist.pc = "start"
    /\ tlist' = [tlist EXCEPT
                   !.pc = "threads",
                   !.extra = ExtraThreadStackLen(tlist.size_limit, tlist.num_threads,
                                                 tlist.position)]
    /\ ThreadListFrame

\* one turn of the loop of write_thread_list, minidump_writer.rs:158-266:
\* the stack of the thread and the memory blocks pushed.  ip_mapped tells
\* whether a mapping holds the instruction pointer of the crash.
\* get_cpu_context, whose body ends in unimplemented!(), is taken to
\* return here; Part 3 follows dump with it as it stands.
WriteListedThread(t, copy, ip_mapped) ==
    /\ tlist.pc = "threads"
    /\ tlist.counter < tlist.num_threads
    /\ LET crashing == tlist.counter = tlist.crashing
           limit == StackSizeLimit(tlist.extra, tlist.counter, crashing, tlist.has_context)
           md_thread == fill_thread_stack(t, limit, copy)
           descriptor == [start_of_memory_range |-> md_thread.start_of_memory_range,
                          data_size |-> md_thread.data_size]
       IN  tlist' = [tlist EXCEPT
                       !.counter = @ + 1,
                       !.thread = [k |-> "Thread",
                                   counter |-> tlist.counter,
                                   crashing |-> crashing,
                                   stack_pointer |-> t.sp,
                                   captured |-> t.stack,
                                   stack |-> md_thread.copied,
                                   start_of_memory_range |-> md_thread.start_of_memory_range,
                                   data_size |-> md_thread.data_size,
                                   pushed |->
                                       IF crashing /\ tlist.has_context
                                       THEN IF ip_mapped THEN <<IpMemory>> ELSE << >>
                                       ELSE IF md_thread.data_size > 0
                                       THEN <<descriptor>> ELSE << >>]]
    /\ ThreadListFrame

\* the loop of write_thread_list is over, minidump_writer.rs:267-269
WriteThreadListEnd ==
    /\ tlist.pc = "threads"
    /\ tlist.counter = tlist.num_threads
    /\ tlist' = [tlist EXCEPT !.pc = "done"]
    /\ ThreadListFrame

ThreadListNext ==
    \/ WriteThreadListStart
    \/ \E t \in ListStacks, copy \in CopyAddresses, ip_mapped \in BOOLEAN :
          WriteListedThread(t, copy, ip_mapped)
    \/ WriteThreadListEnd

\* ====================================================================
\* Part 12: get_stack_info and sanitize_stack
\*          (breakpad-handler/src/linux/ptrace_dumper.rs)
\* ====================================================================
\* the usize a difference wraps to
Wrap(x) == (x + UsizeMax + 1) % (UsizeMax + 1)

\* a usize read as an isize
AsIsize(v) == IF v > UsizeMax \div 2 THEN v - (UsizeMax + 1) ELSE v

MaxStackInfoLen == 32 * 1024
SENTINEL == 233811181
TEST_BITS == 11
ARRAY_SIZE == 2 ^ (TEST_BITS - 3)
SHIFT == 32 - TEST_BITS
SMALL_INT_MAGNITUDE == 4 * 1024

\* the words of a captured stack, and the turns of the scan on one word
\* that are told apart
MaxStackWords == 2
MaxSpins == 2

\* MappingInfo::contains_address, ptrace_dumper.rs:232-234
contains_address(mapping, address) ==
    mapping.start_addr <= address /\ mapping.start_addr + mapping.size > address

\* find_mapping_no_bias, ptrace_dumper.rs:486-490: the index of the first
\* mapping with the address, 0 for None
find_mapping_no_bias(mappings, address) ==
    LET at == {i \in 1..Len(mappings) : contains_address(mappings[i], address)}
    IN  IF at = {} THEN 0 ELSE CHOOSE i \in at : \A j \in at : i <= j

StackNone == [k |-> "None"]
StackPanicked == [k |-> "Panic"]
NotAsked == [k |-> "NotAsked"]

\* the length get_stack_info gives the range, ptrace_dumper.rs:689: two
\* subtractions from the size of the mapping, -1 when one of them panics
StackLen(mapping, stack_ptr, checks) ==
    LET first == mapping.size - stack_ptr
        second == Wrap(first) - mapping.start_addr
        len == Wrap(second)
    IN  IF checks /\ (first < 0 \/ second < 0) THEN -1
        ELSE IF len < MaxStackInfoLen THEN len ELSE MaxStackInfoLen

\* get_stack_info, ptrace_dumper.rs:682-696.  checks tells whether the
\* build checks arithmetic for overflow.
get_stack_info(mappings, stack_pointer, checks) ==
    LET page_size == PAGE_SIZE
        stack_ptr == stack_pointer - (stack_pointer % page_size)
        at == {i \in 1..Len(mappings) :
                 /\ stack_ptr >= mappings[i].start_addr
                 /\ stack_ptr - mappings[i].start_addr < mappings[i].size}
        mapping == mappings[CHOOSE i \in at : \A j \in at : i <= j]
        len == StackLen(mapping, stack_ptr, checks)
    IN  IF at = {} THEN StackNone
        ELSE IF len < 0 THEN StackPanicked
        ELSE [k |-> "Some", ptr |-> stack_ptr, len |-> len]

Mapping(start, size, exec) == [start_addr |-> start, size |-> size, has_exec |-> exec]

\* a table with a low mapping, executable code, a stack and data, and
\* tables with less
LowMapping == Mapping(0, 16 * PAGE_SIZE, FALSE)
CodeMapping == Mapping(16 * PAGE_SIZE, 4 * PAGE_SIZE, TRUE)
StackMapping == Mapping(32 * PAGE_SIZE, 9 * PAGE_SIZE, FALSE)
DataMapping == Mapping(48 * PAGE_SIZE, PAGE_SIZE, FALSE)
MappingTables ==
    {<< >>, <<StackMapping>>, <<CodeMapping, StackMapping, DataMapping>>,
     <<LowMapping, CodeMapping, StackMapping>>}

StackPointers ==
    {m.start_addr + page * PAGE_SIZE + off :
        m \in {LowMapping, CodeMapping, StackMapping, DataMapping},
        page \in {0, 1, 3, 8, 9}, off \in {0, 8, PAGE_SIZE - 1}}

\* ---- sanitize_stack ----
\* could_hit_mapping, ptrace_dumper.rs:750-763: the bits set
CouldHitMapping(mappings) ==
    UNION {{bit % (8 * ARRAY_SIZE) :
              bit \in (mappings[i].start_addr \div 2 ^ SHIFT) ..
                      ((mappings[i].start_addr + mappings[i].size) \div 2 ^ SHIFT)} :
           i \in {j \in 1..Len(mappings) : mappings[j].has_exec}}

\* zero_offset, ptrace_dumper.rs:766-767
ZeroOffset(offset) == ((offset + WordSize - 1) \div WordSize) * WordSize

\* the scan keeps the word at sp: 0 when it does not, else the mapping it
\* leaves in last_hit_mapping, ptrace_dumper.rs:781-809
SmallInt(addr) ==
    AsIsize(addr) <= SMALL_INT_MAGNITUDE /\ AsIsize(addr) >= -SMALL_INT_MAGNITUDE

InStackMapping(s, addr) ==
    s.stack_mapping # 0 /\ contains_address(s.mappings[s.stack_mapping], addr)

InLastHit(s, addr) ==
    s.last_hit_mapping # 0 /\ contains_address(s.mappings[s.last_hit_mapping], addr)

HitsExec(s, addr) ==
    /\ (addr \div 2 ^ SHIFT) % (8 * ARRAY_SIZE) \in CouldHitMapping(s.mappings)
    /\ find_mapping_no_bias(s.mappings, addr) # 0
    /\ s.mappings[find_mapping_no_bias(s.mappings, addr)].has_exec

Kept(s, addr) ==
    SmallInt(addr) \/ InStackMapping(s, addr) \/ InLastHit(s, addr) \/ HitsExec(s, addr)

InitStacks(tables, pointers, wordSets, partials, offsets, originals) ==
    /\ stk \in [mappings : tables, stack_pointer : pointers, info : {NotAsked}]
    /\ san \in [mappings : tables, words : wordSets, partial : partials,
                original_stack : originals, offset : offsets,
                captured : {<< >>}, pc : {"call"}, sp : {0}, spins : {0},
                stack_mapping : {0}, last_hit_mapping : {0}]

StackFrame ==
    UNCHANGED <<dispatcherVars, cfgVars, bhVars, mdVars, fwApiVars, paVars, vecVars,
                tracerVars, linesVars, elfVars, mapsVars, tlistVars,
                auxvVars>>

\* a call of get_stack_info
GetStackInfo(checks) ==
    /\ stk.info = NotAsked
    /\ stk' = [stk EXCEPT !.info = get_stack_info(stk.mappings, stk.stack_pointer, checks)]
    /\ UNCHANGED san
    /\ StackFrame

StackInfoNext == \E checks \in BOOLEAN : GetStackInfo(checks)

\* sanitize_stack up to its loop, ptrace_dumper.rs:730-778: the memory
\* below the stack pointer is zeroed
SanitizeStart ==
    /\ san.pc = "call"
    /\ LET zero_offset == ZeroOffset(san.offset)
       IN  san' = [san EXCEPT
                     !.pc = IF zero_offset > WordSize * Len(san.words) + Len(san.partial)
                            THEN "panicked" ELSE "scan",
                     !.captured = san.words,
                     !.stack_mapping = find_mapping_no_bias(san.mappings, san.original_stack),
                     !.words = [i \in 1..Len(san.words) |->
                                  IF i * WordSize <= zero_offset THEN 0 ELSE san.words[i]],
                     !.sp = zero_offset \div WordSize]
    /\ UNCHANGED stk
    /\ StackFrame

\* one turn of the loop, ptrace_dumper.rs:780-813: a word that is kept
\* takes the turn to its end by continue, another is replaced
SanitizeWord ==
    /\ san.pc = "scan"
    /\ san.sp < Len(san.words)
    /\ LET addr == san.words[san.sp + 1]
       IN  IF Kept(san, addr)
           THEN san' = [san EXCEPT
                          !.spins = IF @ < MaxSpins THEN @ + 1 ELSE 1,
                          !.last_hit_mapping =
                              IF SmallInt(addr) \/ InStackMapping(san, addr)
                                 \/ InLastHit(san, addr)
                              THEN @ ELSE find_mapping_no_bias(san.mappings, addr)]
           ELSE san' = [san EXCEPT !.words[san.sp + 1] = SENTINEL,
                                   !.sp = @ + 1,
                                   !.spins = 0]
    /\ UNCHANGED stk
    /\ StackFrame

\* the loop is over, ptrace_dumper.rs:815-820
SanitizeEnd ==
    /\ san.pc = "scan"
    /\ san.sp >= Len(san.words)
    /\ san' = [san EXCEPT !.pc = "done",
                          !.partial = [i \in 1..Len(san.partial) |-> 0]]
    /\ UNCHANGED stk
    /\ StackFrame

SanitizeNext ==
    \/ SanitizeStart
    \/ SanitizeWord
    \/ SanitizeEnd

\* ====================================================================
\* Part 13: PTraceDumper::init and the auxv table (linux/ptrace_dumper.rs)
\* ====================================================================
\* ax.auxv is the PageVec<Option<usize>>: the element with the index i is
\* ax.auxv[i + 1].  An index at or beyond the length ends init with a panic
\* (page_vec.rs:640-654 index the slice).
MaxAuxEntries == 2

\* AtKinds, ptrace_dumper.rs:72-104
AtNull == 0
AtEntry == 9
AtSysInfo == 32
AtSysInfoEhdr == 33

\* AtKinds::from_int, ptrace_dumper.rs:152-183: the kinds it knows
AtKinds == (2..21) \cup (23..27) \cup {AtSysInfo, AtSysInfoEhdr}

\* ElfAux::from_bytes, ptrace_dumper.rs:49-62
from_bytes(entry) ==
    IF entry[1] \in AtKinds THEN Some([kind |-> entry[1], val |-> entry[2]]) ELSE None

\* the kinds and values found in the file
FileKinds == {AtNull, AtEntry, 22, AtSysInfo, AtSysInfoEhdr, 34}
FileEntries == {<<kind, 12288>> : kind \in FileKinds}

\* PTraceDumper::new, ptrace_dumper.rs:304-322
InitAuxv(files) ==
    ax \in [pc : {"read_auxv"}, auxv : {<< >>}, file : files, read : {0},
            has_valid_entry : {FALSE}, index : {None}, result : {"none"}]

AuxvFrame ==
    UNCHANGED <<dispatcherVars, cfgVars, bhVars, mdVars, fwApiVars, paVars, vecVars,
                tracerVars, linesVars, elfVars, mapsVars, tlistVars, stackVars>>

\* PageVec::resize, page_vec.rs:406-414
resize(v, new_len, value) ==
    IF new_len > Len(v) THEN v \o [i \in 1..(new_len - Len(v)) |-> value]
    ELSE SubSeq(v, 1, new_len)

\* read_auxv up to its loop, ptrace_dumper.rs:340-356
ReadAuxvOpen(opened) ==
    /\ ax.pc = "read_auxv"
    /\ ax' = IF opened
             THEN [ax EXCEPT !.pc = "entry",
                             !.auxv = resize(@, AtSysInfoEhdr, None)]
             ELSE [ax EXCEPT !.pc = "done", !.result = "Err(Io)"]
    /\ AuxvFrame

\* read_auxv after its loop, ptrace_dumper.rs:368-372
AfterLoop(a) ==
    IF a.has_valid_entry THEN [a EXCEPT !.pc = "enumerate_threads"]
    ELSE [a EXCEPT !.pc = "done", !.result = "Err(NoValidAuxvEntries)"]

\* one turn of the loop of read_auxv, ptrace_dumper.rs:358-366; a failed or
\* short read ends the loop
ReadAuxvEntry(readOk) ==
    /\ ax.pc = "entry"
    /\ ax' = IF ~readOk \/ ax.read = Len(ax.file)
             THEN AfterLoop(ax)
             ELSE LET aux == from_bytes(ax.file[ax.read + 1])
                  IN  IF aux = None
                      THEN [ax EXCEPT !.read = @ + 1]
                      ELSE IF aux[1].kind < Len(ax.auxv)
                      THEN [ax EXCEPT !.read = @ + 1,
                                      !.has_valid_entry = TRUE,
                                      !.index = Some(aux[1].kind),
                                      !.auxv[aux[1].kind + 1] = Some(aux[1].val)]
                      ELSE [ax EXCEPT !.read = @ + 1,
                                      !.has_valid_entry = TRUE,
                                      !.index = Some(aux[1].kind),
                                      !.pc = "done", !.result = "panicked"]
    /\ AuxvFrame

\* init between read_auxv and enumerate_mappings, ptrace_dumper.rs:324-327,
\* 375-399
EnumerateThreads(ok) ==
    /\ ax.pc = "enumerate_threads"
    /\ ax' = IF ok THEN [ax EXCEPT !.pc = "linux_gate_loc"]
             ELSE [ax EXCEPT !.pc = "done", !.result = "Err(Io)"]
    /\ AuxvFrame

\* enumerate_mappings looking up linux_gate_loc and then entry_point_loc,
\* ptrace_dumper.rs:401-417; what it does with them is Part 10, which takes
\* both lookups to have returned
LookUp(index) ==
    /\ ax.pc \in {"linux_gate_loc", "entry_point_loc"}
    /\ index = IF ax.pc = "linux_gate_loc" THEN AtSysInfoEhdr ELSE AtEntry
    /\ ax' = IF index >= Len(ax.auxv)
             THEN [ax EXCEPT !.index = Some(index), !.pc = "done",
                             !.result = "panicked"]
             ELSE IF index = AtEntry
             THEN [ax EXCEPT !.index = Some(index), !.pc = "done", !.result = "Ok"]
             ELSE [ax EXCEPT !.index = Some(index), !.pc = "entry_point_loc"]
    /\ AuxvFrame

AuxvNext ==
    \/ \E opened \in BOOLEAN : ReadAuxvOpen(opened)
    \/ \E readOk \in BOOLEAN : ReadAuxvEntry(readOk)
    \/ \E ok \in BOOLEAN : EnumerateThreads(ok)
    \/ \E index \in {AtEntry, AtSysInfoEhdr} : LookUp(index)

\* ====================================================================
\* Specifications
\* ====================================================================
\* the parts a specification does not exercise stay as constructed
InitExt ==
    /\ InitFwApi
    /\ InitPA
    /\ InitVec
    /\ InitTracer({0})
    /\ InitLines({<< >>})
    /\ InitElf({<< >>})
    /\ InitMaps({<< >>}, {None}, {None})
    /\ InitThreadList({0}, {None}, {0}, {0}, {FALSE})
    /\ InitStacks({<< >>}, {0}, {<<0>>}, {<< >>}, {0}, {0})
    /\ InitAuxv({<< >>})

\* the dispatcher with signals and dumps
Init ==
    /\ InitDispatcher(MaxCrashHandlers, {DisabledStack}, DeliveredSignals)
    /\ InitBH
    /\ InitMD({0})
    /\ InitExt

Next == AttachDetachNext \/ DispatchNext

Spec == Init /\ [][Next]_vars

\* attach and detach/drop calls only, from threads with any alternate stack
InitAD ==
    /\ InitDispatcher(MaxHandlers, InitialStacks, DeliveredSignals)
    /\ InitBH
    /\ InitMD({0})
    /\ InitExt

NextAD == AttachDetachNext

SpecAD == InitAD /\ [][NextAD]_vars

\* BreakpadHandler::attach and drop from several threads
InitBreakpad ==
    /\ InitDispatcher(0, {DisabledStack}, {0})
    /\ InitBH
    /\ InitMD({0})
    /\ InitExt

NextBreakpad == BreakpadHandlerNext

SpecBreakpad == InitBreakpad /\ [][NextBreakpad]_vars

\* one run of MinidumpWriter::dump
InitDump ==
    /\ InitDispatcher(0, {DisabledStack}, {0})
    /\ InitBH
    /\ InitMD(0..MaxDumpThreads)
    /\ InitExt

NextDump == MinidumpWriterNext

SpecDump == InitDump /\ [][NextDump]_vars

\* the other parts at rest
InitBase ==
    /\ InitDispatcher(0, {DisabledStack}, {0})
    /\ InitBH
    /\ InitMD({0})
    /\ InitExt

\* any sequence of reserve and write calls on one FileWriter
InitFW == InitBase

NextFW == FileWriterNext

SpecFW == InitFW /\ [][NextFW]_vars

\* any sequence of alloc_raw calls on one PageAllocator
InitAlloc == InitBase

NextAlloc == PageAllocatorNext

SpecAlloc == InitAlloc /\ [][NextAlloc]_vars

\* any sequence of calls on one PageVec, beside the reference sequence
InitVector == InitBase

NextVector == PageVecNext

SpecVector == InitVector /\ [][NextVector]_vars

\* suspend_threads and resume_threads called in any order
InitTracing ==
    /\ InitDispatcher(0, {DisabledStack}, {0})
    /\ InitBH
    /\ InitMD({0})
    /\ InitFwApi
    /\ InitPA
    /\ InitVec
    /\ InitTracer(0..MaxTids)
    /\ InitLines({<< >>})
    /\ InitElf({<< >>})
    /\ InitMaps({<< >>}, {None}, {None})
    /\ InitThreadList({0}, {None}, {0}, {0}, {FALSE})
    /\ InitStacks({<< >>}, {0}, {<<0>>}, {<< >>}, {0}, {0})
    /\ InitAuxv({<< >>})

NextTracing == TracerNext

SpecTracing == InitTracing /\ [][NextTracing]_vars

\* next() called again and again on a LineReader over any input, the
\* reads splitting the input in any way
InitReading ==
    /\ InitDispatcher(0, {DisabledStack}, {0})
    /\ InitBH
    /\ InitMD({0})
    /\ InitFwApi
    /\ InitPA
    /\ InitVec
    /\ InitTracer({0})
    /\ InitLines(SeqsUpTo(InputBytes, MaxInput))
    /\ InitElf({<< >>})
    /\ InitMaps({<< >>}, {None}, {None})
    /\ InitThreadList({0}, {None}, {0}, {0}, {FALSE})
    /\ InitStacks({<< >>}, {0}, {<<0>>}, {<< >>}, {0}, {0})
    /\ InitAuxv({<< >>})

NextReading == LineReaderNext

SpecReading == InitReading /\ [][NextReading]_vars

\* the parts other than the ELF reader at rest
InitRest ==
    /\ InitDispatcher(0, {DisabledStack}, {0})
    /\ InitBH
    /\ InitMD({0})
    /\ InitFwApi
    /\ InitPA
    /\ InitVec
    /\ InitTracer({0})
    /\ InitLines({<< >>})
    /\ InitMaps({<< >>}, {None}, {None})
    /\ InitThreadList({0}, {None}, {0}, {0}, {FALSE})
    /\ InitStacks({<< >>}, {0}, {<<0>>}, {<< >>}, {0}, {0})
    /\ InitAuxv({<< >>})

\* from_mapped_file called on an image with notes, or on a slice that is
\* no well-formed image
InitElfId == InitRest /\ InitElf({<<img>> : img \in NoteImages \cup Malformed})

NextElfId == ElfNext

SpecElfId == InitElfId /\ [][NextElfId]_vars

\* from_mapped_file called on two images without build-id
InitElfHash == InitRest /\ InitElf({<<a, b>> : a \in TextImages, b \in TextImages})

NextElfHash == ElfNext

SpecElfHash == InitElfHash /\ [][NextElfHash]_vars

\* enumerate_mappings over a maps file of one line of any kind, or of
\* up to MaxMapsLines lines of a few kinds
MixedLines ==
    {MapsLine(r[1], r[2], perms, 0, LibName) :
        r \in {<<4096, 12288>>, <<12288, 16384>>},
        perms \in {<<"r", "-", "x", "p">>, <<"r", "-", "-", "p">>}}
    \cup {MapsLine(0, 4096, <<"r", "-", "x", "p">>, 0, LibName), SubSeq(CutLine, 1, 20)}

InitMapsFile ==
    /\ InitDispatcher(0, {DisabledStack}, {0})
    /\ InitBH
    /\ InitMD({0})
    /\ InitFwApi
    /\ InitPA
    /\ InitVec
    /\ InitTracer({0})
    /\ InitLines({<< >>})
    /\ InitElf({<< >>})
    /\ InitMaps({<<l>> : l \in WellFormedLines \cup MalformedLines}
                \cup {s \in SeqsUpTo(MixedLines, MaxMapsLines) : Len(s) = MaxMapsLines},
                {None, Some(12288)}, {None, Some(12288)})
    /\ InitThreadList({0}, {None}, {0}, {0}, {FALSE})
    /\ InitStacks({<< >>}, {0}, {<<0>>}, {<< >>}, {0}, {0})
    /\ InitAuxv({<< >>})

NextMapsFile == EnumerateNext

SpecMapsFile == InitMapsFile /\ [][NextMapsFile]_vars

\* write_thread_list for a dumper with up to MaxListThreads threads, with
\* and without a size limit
InitListing ==
    /\ InitDispatcher(0, {DisabledStack}, {0})
    /\ InitBH
    /\ InitMD({0})
    /\ InitFwApi
    /\ InitPA
    /\ InitVec
    /\ InitTracer({0})
    /\ InitLines({<< >>})
    /\ InitElf({<< >>})
    /\ InitMaps({<< >>}, {None}, {None})
    /\ InitThreadList({1, MaxListThreads - 1, MaxListThreads},
                      {None, Some(FUDGE_FACTOR), Some(3 * FUDGE_FACTOR),
                       Some(8 * FUDGE_FACTOR)},
                      {0, 2 * PAGE_SIZE},
                      {0, MaxListThreads - 1}, BOOLEAN)
    /\ InitStacks({<< >>}, {0}, {<<0>>}, {<< >>}, {0}, {0})
    /\ InitAuxv({<< >>})

NextListing == ThreadListNext

SpecListing == InitListing /\ [][NextListing]_vars

InitNoStacks ==
    /\ InitDispatcher(0, {DisabledStack}, {0})
    /\ InitBH
    /\ InitMD({0})
    /\ InitFwApi
    /\ InitPA
    /\ InitVec
    /\ InitTracer({0})
    /\ InitLines({<< >>})
    /\ InitElf({<< >>})
    /\ InitMaps({<< >>}, {None}, {None})
    /\ InitThreadList({0}, {None}, {0}, {0}, {FALSE})

\* get_stack_info asked about a stack pointer in and out of the mappings
InitStackInfo ==
    /\ InitNoStacks
    /\ InitStacks(MappingTables, StackPointers, {<<0>>}, {<< >>}, {0}, {0})
    /\ InitAuxv({<< >>})

NextStackInfo == StackInfoNext

SpecStackInfo == InitStackInfo /\ [][NextStackInfo]_vars

\* sanitize_stack on a buffer of up to MaxStackWords words and some
\* trailing bytes.  A captured stack holds a word at least.
StackWords ==
    {0, SMALL_INT_MAGNITUDE, SMALL_INT_MAGNITUDE + 1,
     UsizeMax + 1 - SMALL_INT_MAGNITUDE, UsizeMax - SMALL_INT_MAGNITUDE,
     CodeMapping.start_addr + 16, StackMapping.start_addr + PAGE_SIZE + 16,
     DataMapping.start_addr + 16}

InitSanitizing ==
    /\ InitNoStacks
    /\ InitStacks({<<StackMapping>>, <<CodeMapping, StackMapping, DataMapping>>}, {0},
                  {w \in SeqsUpTo(StackWords, MaxStackWords) : w # << >>},
                  {<< >>, <<1, 1, 1>>}, {0, 1, WordSize},
                  {0, StackMapping.start_addr + PAGE_SIZE})
    /\ InitAuxv({<< >>})

NextSanitizing == SanitizeNext

SpecSanitizing == InitSanitizing /\ [][NextSanitizing]_vars

\* the loop of sanitize_stack goes on while it can
SpecSanitizingFair == SpecSanitizing /\ WF_vars(NextSanitizing)

\* init on an auxv file of up to MaxAuxEntries entries
InitAuxvFile ==
    /\ InitNoStacks
    /\ InitStacks({<< >>}, {0}, {<<0>>}, {<< >>}, {0}, {0})
    /\ InitAuxv(SeqsUpTo(FileEntries, MaxAuxEntries))

NextAuxvFile == AuxvNext

SpecAuxvFile == InitAuxvFile /\ [][NextAuxvFile]_vars


\* ====================================================================
\* Properties
\* ====================================================================
\* the client threads that passed the compare_and_swap and have not yet
\* cleared the flag again
Holders == {c \in Clients : bhPc[c] \in {"attaching", "attached", "dropping"}}

\* C1: at most one BreakpadHandler exists at any time, in breakpad_sys too;
\* an attach returns HandlerAlreadyRegistered exactly when another attach has
\* passed the flag and its handler has not been dropped yet, so an attach
\* made after the drop succeeds.
C1_SingleHandler ==
    [][/\ Cardinality(Holders') <= 1
       /\ sysHandlers' <= 1
       /\ \A c \in Clients :
            (bhPc[c] = "idle" /\ bhPc'[c] # "idle")
               => ((bhPc'[c] = "refused") <=> (Holders # {}))]_vars

C1_Witness ==
    \E c, d \in Clients : bhPc[c] = "refused" /\ bhPc[d] = "attached"

\* C2: once signal_handler has finished dispatching, and until it has
\* re-raised the signal and returned, the disposition of the signal is not
\* the dispatcher's own handler.
C2_NotOursBeforeReraise ==
    \A t \in Threads :
        spc[t] \in {"sh_reraise", "sh_return"} => disp[ssig[t]] \notin OwnDispositions

\* C3: with attach and detach/drop calls only, the saved dispositions and the
\* alternate-stack record are given up only by a do_detach that leaves the
\* registry empty; that do_detach unmaps the recorded stack, clears both
\* records and puts back the dispositions that were in force before attach.
C3_RestoreWhenEmpty ==
    [][/\ (\/ OLD_HANDLERS # None /\ OLD_HANDLERS' = None
           \/ STACK_SAVE # None /\ STACK_SAVE' = None
           \/ mapped' # mapped /\ mapped' \subseteq mapped
           \/ \E s \in SignalSet :
                 disp[s] \in OwnDispositions /\ disp'[s] \notin OwnDispositions)
          => /\ HANDLER_STACK' = << >>
             /\ \E t \in Threads : pc[t] \in {"dt_body", "dt_rh_body"} /\ hsLock = t
       /\ \A t \in Threads :
            (pc[t] = "dt_body" /\ HANDLER_STACK # << >> /\ HANDLER_STACK' = << >>)
               => /\ STACK_SAVE' = None
                  /\ STACK_SAVE # None => STACK_SAVE[1].new.ss_sp \notin mapped'
                  /\ pc'[t] = "dt_rh_lock"
       /\ \A t \in Threads :
            (pc[t] = "dt_rh_body" /\ pc'[t] # "dt_rh_body")
               => /\ HANDLER_STACK = << >>
                  /\ OLD_HANDLERS' = None
                  /\ disp' = origDisp]_vars

C3_Witness ==
    \E t \in Threads :
        /\ pc[t] = "dt_rh_body"
        /\ opAgain[t]
        /\ HANDLER_STACK = << >>
        /\ OLD_HANDLERS # None
        /\ \E h \in Handlers : hstate[h] = "attaching"

\* C4: when generate_dump returns for a handler with a crash callback, the
\* callback has been invoked exactly once, and the helper had exited by then.
C4_CallbackOnce ==
    (gd.pc = "gd_ret" /\ hasCb[gd.h]) => (cbCount = 1 /\ cbAfterExit)

C6_NoSelfDeadlock ==
    \A t \in Threads :
        /\ ~(spc[t] = "sh_lock" /\ hsLock = t)
        /\ ~(spc[t] = "sh_cc_lock" /\ ccLock = t)
        /\ ~(spc[t] = "sh_final" /\ ~shandled[t] /\ ohLock = t)

\* C7: while generate_dump is at clone, at the pipe write or in waitpid, its
\* thread holds neither the registry lock nor the saved-dispositions lock.
C7_NoLockAcrossDump ==
    (GdRuns /\ gd.pc \in {"gd_clone", "gd_write", "gd_waitpid"})
        => (hsLock # gd.t /\ ohLock # gd.t)

\* C8: after dispatch, signal_handler calls tgkill exactly when si_code <= 0
\* or the signal is SIGABRT; the process has ended with status 1 when tgkill
\* failed; otherwise the handler sends nothing and goes on to return.
C8_Reraise ==
    \A t \in Threads :
        skill[t] # "none" =>
            /\ (skill[t] \in {"sent", "failed"}) <=> (scode[t] <= 0 \/ ssig[t] = SIGABRT)
            /\ (skill[t] = "nothing") <=> (scode[t] > 0 /\ ssig[t] # SIGABRT)
            /\ skill[t] = "failed" => (~alive /\ exitStatus = 1)
            /\ skill[t] \in {"sent", "nothing"} => spc[t] = "sh_return"

C8_Witness ==
    \E t \in Threads :
        skill[t] = "failed" /\ ssig[t] = SIGSEGV /\ scode[t] = SI_USER /\ exitStatus = 1

\* C9: when dump has ended and a header is in the file, the header carries
\* the signature and the version, and its stream_count is the number of
\* directory entries written.
C9_StreamCount ==
    (mdPc = "done" /\ header # None) =>
        /\ header[1].signature = MINIDUMP_SIGNATURE
        /\ header[1].version = MINIDUMP_VERSION
        /\ header[1].stream_count = Cardinality(dirEntries)

\* the first SizeOfHeader bytes of the file are those of one complete write
\* of the header, and no later write touched them
FileStartsWithHeader ==
    /\ fileLen >= SizeOfHeader
    /\ \E i \in 1..Len(extents) :
         /\ extents[i] = [pos |-> 0, size |-> SizeOfHeader, tag |-> "Header",
                          complete |-> TRUE]
         /\ \A j \in (i + 1)..Len(extents) : extents[j].pos >= SizeOfHeader

\* C10: the first reservation is the header's, at offset 0; any further
\* reservation is made after the header was written and flushed; and from
\* the flush on, whatever fails later, the file starts with a complete
\* header.
C10_HeaderFirst ==
    /\ Len(reservations) >= 1 => reservations[1] = [pos |-> 0, size |-> SizeOfHeader]
    /\ Len(reservations) >= 2 => flushed
    /\ flushed => (header # None /\ FileStartsWithHeader)

C10_Witness ==
    /\ mdResult = "Err"
    /\ Len(reservations) >= 4
    /\ Len(extents) >= 3
    /\ ~extents[Len(extents)].complete
    /\ FileStartsWithHeader
\* the reservation a write was made into
Target(extent) == reservations[extent.tag]

\* C11: every write made through FileWriter::write, MDItem::write,
\* MDArray::write, MDHeaderArray::write_header or MDHeaderArray::write ends
\* inside the reservation it was made into: offset + bytes written <= the
\* size the reservation was created with.
C11_WritesInside ==
    \A k \in 1..Len(extents) :
        extents[k].pos + extents[k].size <= Target(extents[k]).pos + Target(extents[k]).size

\* the regions [p, p + size) of two allocations share no byte
Disjoint(r, q) == r.ptr + r.size <= q.ptr \/ q.ptr + q.size <= r.ptr

\* the region was cut from the current page, not from the start of a block
Bumped(r) == \A b \in DOMAIN headers : r.ptr # b + SizeOfPageHeader

\* C12: every region alloc_raw returned lies inside one block of pages this
\* allocator mapped, shares no byte with the PageHeader of any block, and is
\* disjoint from every region returned before it; its length is the size
\* asked for.
C12_RegionsDisjoint ==
    \A k \in 1..Len(regions) :
        /\ regions[k].size \in AllocSizes
        /\ \E b \in DOMAIN headers :
              regions[k].ptr >= b /\ regions[k].ptr + regions[k].size <= b + BlockBytes(b)
        /\ \A b \in DOMAIN headers :
              Disjoint(regions[k], [ptr |-> b, size |-> SizeOfPageHeader])
        /\ \A j \in 1..(k - 1) : Disjoint(regions[j], regions[k])

C12_Witness ==
    /\ Len(regions) = MaxAllocs
    /\ regions[1].size = 2 * PAGE_SIZE
    /\ Bumped(regions[2])
    /\ Bumped(regions[3])

\* the addresses owns_pointer is asked about: the first and last byte of
\* every page, the bytes around every PageHeader and around every region
Probes ==
    UNION {{k * PAGE_SIZE, (k + 1) * PAGE_SIZE - 1} : k \in 0..MaxPages}
    \cup UNION {{b + SizeOfPageHeader - 1, b + SizeOfPageHeader} : b \in DOMAIN headers}
    \cup UNION {{regions[k].ptr, regions[k].ptr + regions[k].size - 1,
                 regions[k].ptr + regions[k].size} : k \in 1..Len(regions)}

HandedOut(p) ==
    \E k \in 1..Len(regions) : regions[k].ptr <= p /\ p < regions[k].ptr + regions[k].size

\* C13 as stated: owns_pointer is true for every pointer alloc_raw returned
\* and false for every address that was not handed out.
C13_OwnsOnlyReturned ==
    /\ \A k \in 1..Len(regions) : owns_pointer(regions[k].ptr)
    /\ \A p \in Probes : ~HandedOut(p) => ~owns_pointer(p)

\* C13 amended: owns_pointer is true for every pointer alloc_raw returned
\* and for every byte handed out, and it is true of an address exactly when
\* the address lies in a block of pages this allocator mapped, the
\* PageHeaders and the unused tails included.
C13_OwnsMappedPages ==
    /\ \A k \in 1..Len(regions) : owns_pointer(regions[k].ptr)
    /\ \A p \in Probes :
          /\ HandedOut(p) => owns_pointer(p)
          /\ owns_pointer(p) <=> \E b \in DOMAIN headers : b <= p /\ p < b + BlockBytes(b)

C13_Witness ==
    /\ Len(regions) = MaxAllocs
    /\ Cardinality(DOMAIN headers) = 2
    /\ \E k \in 1..Len(regions) : Bumped(regions[k]) /\ regions[k].ptr >= pa.last[1] + PAGE_SIZE
    /\ \E p \in Probes : owns_pointer(p) /\ ~HandedOut(p)
    /\ \E p \in Probes : ~owns_pointer(p) /\ p > 0

\* C14: an alloc_raw call whose mmap fails returns AllocError and leaves the
\* block chain, the current page with its offset and the count of allocated
\* pages as they were; every call returns Ok or AllocError, none panics.
C14_FailedMapChangesNothing ==
    [][paCalls' # paCalls =>
          /\ paResult' \in {"Ok", "AllocError"}
          /\ paResult' = "AllocError" =>
                /\ pa' = pa
                /\ headers' = headers
                /\ regions' = regions
          /\ paResult' = "Ok" => Len(regions') = Len(regions) + 1]_vars

C14_Witness ==
    /\ paResult = "AllocError"
    /\ pa.current_page # None
    /\ pa.total_allocated_pages > 0

\* the active elements of the PageVec
Active(v) == SubSeq(v.buf, 1, v.len)

\* C15: after every push, pop, insert(index, x) and remove(index) with an
\* index in range (and after every other call of this part) the PageVec and
\* the reference sequence have the same length and the same elements in the
\* same order, and the call returned what the reference returned; pop on an
\* empty vector returns None.
C15_SameAsReference ==
    vec.status = "Ok" =>
        /\ vec.len = Len(refSeq)
        /\ Active(vec) = refSeq
        /\ vecRet = refRet
        /\ (vecRet # None => vecRet[1] \in Values)

C15_Witness ==
    /\ vec.len = 2
    /\ Len(vec.buf) >= MaxVecLen
    /\ vec.buf[3] # Uninit
    /\ refSeq[1] # refSeq[2]
    /\ vecRet = Some(refSeq[2])

\* C16: after every call capacity >= length and every active slot holds a
\* value; after a call that made the length or the capacity smaller the
\* active elements are the first length slots of the buffer and hold what
\* the call leaves.
C16_CapacityCoversLength ==
    [][/\ Len(vec'.buf) >= vec'.len
       /\ \A j \in 1..vec'.len : vec'.buf[j] \in Values
       /\ (vec'.len < vec.len \/ Len(vec'.buf) < Len(vec.buf))
             => Active(vec') = refSeq']_vars

C16_Witness ==
    /\ vec.len = 2
    /\ Len(vec.buf) = vec.len
    /\ vec.status = "Ok"

\* C17: a call that needs to grow when the allocator cannot supply memory
\* ends by returning an out-of-memory error to its caller; the process is
\* not aborted and does not panic.
C17_GrowthFailureReturned == vec.status \in {"Ok", "OutOfMemory"}

\* the threads still in the dump set
DumpSet(d) == {d.threads[i][1] : i \in {j \in 1..Len(d.threads) : d.threads[j] # None}}

C19_ResumeDetachesAll ==
    [][/\ (tr.pc = "detach" /\ tr'.pc = "idle") =>
             /\ tr'.issued = DumpSet(dumper)
             /\ tr'.result \in {"Ok", "AllThreadsNotResumed"}
             /\ tr'.result = "AllThreadsNotResumed" <=> tr'.failed # {}
             /\ ~dumper'.threads_suspended
             /\ dumper'.threads = dumper.threads
       /\ (tr.pc = "detach" /\ tr'.pc = "detach") => dumper'.threads_suspended
       /\ (ResumeThreads /\ dumper.threads_suspended /\ tr'.pc = "idle") =>
             /\ DumpSet(dumper) = {}
             /\ tr'.result = "Ok"
             /\ ~dumper'.threads_suspended
       /\ (ResumeThreads /\ ~dumper.threads_suspended) =>
             /\ tr'.pc = "idle"
             /\ tr'.result = "ThreadsNotSuspended"
             /\ tr'.issued = {}
             /\ attached' = attached
             /\ dumper' = dumper]_vars

C19_Witness ==
    /\ tr.pc = "idle"
    /\ tr.result = "AllThreadsNotResumed"
    /\ tr.failed = {1}
    /\ tr.issued = Tids
    /\ ~dumper.threads_suspended

\* the whole input split at its newline bytes: each piece that a newline
\* ends, and the piece after the last newline when it is not empty
RECURSIVE SplitLines(_)
SplitLines(data) ==
    IF data = << >> THEN << >>
    ELSE LET at == {i \in 1..Len(data) : data[i] = Newline}
         IN  IF at = {} THEN <<data>>
             ELSE LET i == CHOOSE i \in at : \A j \in at : i <= j
                  IN  <<SubSeq(data, 1, i - 1)>> \o SplitLines(SubSeq(data, i + 1, Len(data)))

\* every line of the input is shorter than the buffer
ShortLines(data) == \A k \in 1..Len(SplitLines(data)) : Len(SplitLines(data)[k]) < N

\* C20: over an input whose lines are each shorter than the buffer capacity
\* N, however the reads split it, the lines yielded so far are the first
\* lines of the whole input split at its newlines, and once next() has
\* returned None they are all of them, a last line without a newline
\* included, and no further line is yielded.
C20_LinesAsSplit ==
    (ShortLines(inner.data) /\ ~it.failed) =>
        /\ IsPrefix(it.yielded, SplitLines(inner.data))
        /\ it.nones > 0 => it.yielded = SplitLines(inner.data)

\* the place among the lines of the input of the first one that has no
\* newline within N bytes; 0 when every line is shorter than that
FirstOverlong(data) ==
    LET long == {k \in 1..Len(SplitLines(data)) : Len(SplitLines(data)[k]) >= N}
    IN  IF long = {} THEN 0 ELSE CHOOSE k \in long : \A j \in long : k <= j

\* C21: when a line of the input has no newline within the N bytes of the
\* buffer, next() yields nothing for it, whatever the reads return and
\* wherever the line stands: only the lines before it are ever yielded,
\* none of them a piece of it, and the call that reaches it returns None.
C21_OverlongYieldsNothing ==
    LET k == FirstOverlong(inner.data)
    IN  k > 0 =>
            /\ Len(it.yielded) < k
            /\ \A j \in 1..Len(it.yielded) : Len(it.yielded[j]) < N
            /\ (it.nones > 0 /\ ~it.failed) => /\ Len(it.yielded) = k - 1
                                               /\ ~reader.eof
                                               /\ TooLong(reader)

\* an overlong line that follows a yielded line was reached and answered
\* with None
C21_Witness ==
    /\ FirstOverlong(inner.data) = 2
    /\ Len(it.yielded) = 1
    /\ it.nones > 0
    /\ ~it.failed

\* the build-id of a list of notes: the description of its first note of
\* type NT_GNU_BUILD_ID that is at most MAX_ID_SIZE bytes long
RECURSIVE BuildIdOf(_)
BuildIdOf(list) ==
    IF list = << >> THEN None
    ELSE IF list[1].kind = NT_GNU_BUILD_ID /\ Len(list[1].desc) <= MAX_ID_SIZE
    THEN Some(list[1].desc)
    ELSE BuildIdOf(Tail(list))

\* the build-id that the places searched hold, in the order of the search
RECURSIVE FirstBuildId(_)
FirstBuildId(places) ==
    IF places = << >> THEN None
    ELSE IF BuildIdOf(places[1]) # None THEN BuildIdOf(places[1])
    ELSE FirstBuildId(Tail(places))

\* C22: for an image of either class that holds a GNU build-id note of at
\* most 64 bytes, from_mapped_file returns the description of that note,
\* whatever its length: the first one found in the PT_NOTE segments taken
\* in order, notes of other types and segments without build-id passed
\* over, else the one of the .note.gnu.build-id section; the hash of .text
\* is returned only when none of these holds a build-id.
C22_BuildIdFound ==
    \A class \in Classes, n1 \in FirstNotes, n2 \in SecondNotes, n3 \in SectionNotes :
        (elf = <<NoteImage(class, n1, n2, n3)>> /\ elfId[1] # NotCalled) =>
            LET id == FirstBuildId(n1 \o n2 \o n3)
            IN  IF id # None THEN elfId[1] = SomeId(id[1])
                ELSE elfId[1] = hash_text_section(elf[1], "reads")

\* the build-id of the .note.gnu.build-id section returned after two
\* PT_NOTE segments without one
C22_Witness ==
    /\ elf = <<NoteImage(ELFCLASS64, <<<<OtherNote>>>>, <<<<OtherNote>>>>,
                         <<<<GnuBuildId(20, 0)>>>>)>>
    /\ elfId[1] = SomeId(BuildId(20, 0))

\* the slice is shorter than the magic or the header, or has another magic
\* or class byte, or has neither build-id nor .text section
NoIdentifier(img) ==
    \/ img.size < 5
    \/ ~img.magic
    \/ img.class \notin Classes
    \/ img.size < SIZEOF_EHDR(img.class)
    \/ /\ \A i \in 1..Len(img.ph) : build_id_from_note(img.ph[i].body) = NoId
       /\ \A i \in 1..Len(img.sh) : img.sh[i].sh_type \notin {SHT_NOTE, SHT_PROGBITS}

\* C24: from_mapped_file does not panic on a slice that is no well-formed
\* ELF image, and returns no identifier when the slice is shorter than the
\* magic or the header, has another magic or an unknown class byte, or has
\* neither .text section nor build-id.
C24_MalformedGivesNone ==
    (elf # << >> /\ elf[1] \in Malformed /\ elfId[1] # NotCalled) =>
        /\ elfId[1].k \notin {"Panic", "Fault"}
        /\ NoIdentifier(elf[1]) => elfId[1] = NoId

\* the contents of the .text section of an image
TextOf(img) ==
    img.sh[CHOOSE i \in 1..Len(img.sh) : img.sh[i].name = <<".text">>].body

\* whether the complete 16-byte chunks of the first 4 KiB of text that have
\* bit number bit set in their byte j are odd in number
OddBit(text, j, bit) ==
    LET chunks == (IF Len(text) < FirstPageSize THEN Len(text) ELSE FirstPageSize)
                      \div IdentifierSize
    IN  Cardinality({c \in 0..(chunks - 1) :
                        (text[c * IdentifierSize + j] \div (2 ^ bit)) % 2 = 1}) % 2 = 1

SameParities(t1, t2) ==
    \A j \in 1..IdentifierSize, bit \in 0..7 : OddBit(t1, j, bit) = OddBit(t2, j, bit)

BothCalled == Len(elf) = 2 /\ elfId[1] # NotCalled /\ elfId[2] # NotCalled

\* C23 as stated: the fallback identifier of an image without build-id is
\* the same for the same image, and two images whose .text contents
\* differ get different identifiers.
C23_DifferentTextDifferentId ==
    BothCalled =>
        /\ elf[1] = elf[2] => elfId[1] = elfId[2]
        /\ TextOf(elf[1]) # TextOf(elf[2]) => elfId[1] # elfId[2]

\* C23, amended: the fallback identifier of an image without build-id is
\* 16 bytes, the same for the same image, and two images get different
\* identifiers exactly when, for some byte position and bit, the complete
\* 16-byte chunks of the first 4 KiB of their .text sections that have the
\* bit set differ in parity; differences past the first 4 KiB, in a last
\* incomplete chunk, or that cancel between chunks do not show.
C23_IdFollowsChunkParity ==
    BothCalled =>
        /\ elfId[1].k = "Some" /\ Len(elfId[1].id) = IdentifierSize
        /\ elf[1] = elf[2] => elfId[1] = elfId[2]
        /\ elfId[1] # elfId[2] <=> ~SameParities(TextOf(elf[1]), TextOf(elf[2]))

\* the two images of test unique_hashes got different identifiers
C23_Witness ==
    /\ BothCalled
    /\ elf[1].class = elf[2].class
    /\ TextOf(elf[1]) = populate(FirstPageSize, 17)
    /\ TextOf(elf[2]) = populate(FirstPageSize, 31)
    /\ elfId[1] # elfId[2]


\* ---- C25, C26: the lines of the maps file ----
\* the line enumerate_mappings took last
LatestLine == maps.lines[maps.idx]

\* what a line printed from these fields stands for
MappingOf(start, end, perms, offset, name) ==
    [k |-> "Ok",
     start_addr |-> start,
     size |-> end - start,
     sys_start_addr |-> start,
     sys_end_addr |-> end,
     offset |-> offset,
     has_exec |-> \E i \in 1..Len(perms) : perms[i] = "x",
     name |-> IF name # << >> /\ name[1] = "/" THEN name ELSE << >>]

\* C25: a well-formed line 'start-end perms offset dev inode [path]'
\* parses to start, to the size end - start, to the offset, to has_exec
\* exactly when the permissions hold an 'x', and to the path from its
\* first '/', the name being empty for no path and for a bracketed
\* pseudo-name.
C25_WellFormedLineParsed ==
    maps.idx > 0 =>
        \A r \in Ranges, perms \in Perms, offset \in Offsets, name \in Names :
            LatestLine = MapsLine(r[1], r[2], perms, offset, name)
                => maps.parsed = MappingOf(r[1], r[2], perms, offset, name)

\* a line with an executable mapping of a deleted library has been parsed
C25_Witness ==
    /\ maps.idx > 0
    /\ LatestLine = MapsLine(4096, 12288, <<"r", "-", "x", "p">>, 110592,
                             LibName \o <<" ", "(", "d", "e", "l", "e", "t", "e", "d", ")">>)
    /\ maps.parsed.k = "Ok"
    /\ maps.parsed.has_exec
    /\ maps.parsed.size = 8192
    /\ Len(maps.parsed.name) = Len(LibName) + 10

\* C26: no line makes the parser panic: a malformed line parses to
\* InvalidMapping and the enumeration goes on past it.
C26_MalformedLineSkipped ==
    (maps.idx > 0 /\ LatestLine \in MalformedLines)
        => (maps.parsed = InvalidMapping /\ maps.pc # "panicked")


\* ---- C27: the size limit and the stacks of the threads ----
\* the estimate of the dump: the position of the file, the stacks of all
\* threads at the average length, and the fudge factor
EstimatedDumpSize ==
    tlist.position + tlist.num_threads * LIMIT_AVG_STACK_LEN + FUDGE_FACTOR

OverLimit == tlist.size_limit # None /\ EstimatedDumpSize > tlist.size_limit[1]

\* C27: with a size limit that the estimate (position, 8 KiB for each
\* thread, 64 KiB of fudge) exceeds, a thread at position 20 or later
\* that is not the crashing thread has at most 2 KiB of stack written;
\* the first 20 threads and the crashing thread keep the captured stack;
\* with no limit or an estimate within it every thread keeps it.
C27_ExtraThreadsTruncated ==
    tlist.thread.k = "Thread" =>
        LET th == tlist.thread
            extra == th.counter >= LIMIT_BASE_THREAD_COUNT /\ ~th.crashing
        IN  /\ (OverLimit /\ extra) => th.data_size <= MAX_EXTRA_THREAD_STACK
            /\ (~OverLimit \/ ~extra) => th.stack = th.captured


\* ---- C28: the range of the stack ----
\* the first mapping that holds the stack pointer, 0 for none
MappingOfStackPointer == find_mapping_no_bias(stk.mappings, stk.stack_pointer)

\* C28: for a stack pointer inside a mapping get_stack_info gives the
\* range from the page of the stack pointer, as long as the bytes from
\* there to the end of the mapping and no longer than 32 KiB, and no
\* subtraction underflows; for a stack pointer in no mapping it gives
\* nothing.
C28_StackRangeWithinMapping ==
    stk.info # NotAsked =>
        IF MappingOfStackPointer = 0 THEN stk.info = StackNone
        ELSE LET mapping == stk.mappings[MappingOfStackPointer]
                 start == stk.stack_pointer - (stk.stack_pointer % PAGE_SIZE)
                 to_end == mapping.start_addr + mapping.size - start
             IN  stk.info = [k |-> "Some", ptr |-> start,
                             len |-> IF to_end < MaxStackInfoLen THEN to_end
                                     ELSE MaxStackInfoLen]

\* ---- C29, C30: the sanitized stack ----
\* the low bytes of a word are zero
LowBytesZero(word, bytes) ==
    IF bytes >= WordSize THEN word = 0 ELSE word % (2 ^ (8 * bytes)) = 0

\* an address inside an executable mapping
InExecutable(addr) ==
    \E i \in 1..Len(san.mappings) :
        san.mappings[i].has_exec /\ contains_address(san.mappings[i], addr)

\* every byte below the offset is zero, and every complete word at or
\* above it is unchanged exactly when it was a small integer or an
\* address in an executable mapping, and else is the sentinel
SanitizedAsStated ==
    \A i \in 1..Len(san.words) :
        LET from == (i - 1) * WordSize
            was == san.captured[i]
        IN  IF from < san.offset
            THEN LowBytesZero(san.words[i], san.offset - from)
            ELSE /\ (san.words[i] = was) <=> (SmallInt(was) \/ InExecutable(was))
                 /\ san.words[i] # was => san.words[i] = SENTINEL

\* C29: sanitize_stack returns with every byte below the stack pointer
\* zero and every complete word from it on either unchanged, exactly when
\* it is an integer within 4096 of zero or an address in an executable
\* mapping, or replaced by the sentinel.
C29_ReturnsSanitized == (san.pc = "scan") ~> (san.pc = "done" /\ SanitizedAsStated)

\* C30: sanitize_stack terminates: every turn of its loop moves the scan
\* to the next word, whether the word is kept or replaced.
C30_ScanAdvances ==
    [][(san.pc = "scan" /\ san'.pc = "scan") => san'.sp = san.sp + 1]_vars


\* ---- C31: the regions merged ----
\* the region a parsed line stands for, under the name it is recorded by
RegionOf(parsed) ==
    [start |-> parsed.start_addr,
     end |-> parsed.sys_end_addr,
     has_exec |-> parsed.has_exec,
     name |-> IF maps.linux_gate_loc = Some(parsed.start_addr)
              THEN LINUX_GATE_LIBRARY_NAME ELSE parsed.name]

\* the region starts where the mapping recorded last ends, has its name,
\* and the executable flag does not go from set to clear
Mergeable(last, region) ==
    /\ region.start = last.sys_end_addr
    /\ region.name = last.name
    /\ ~(last.has_exec /\ ~region.has_exec)

\* C31: a parsed region is merged into the mapping recorded last exactly
\* when it starts where that mapping ends, has the same name, and the
\* executable flag does not go from set to clear; the merged mapping spans
\* from the first start to the new end; every other region is appended as
\* a new mapping.
C31_MergedWhenAdjacent ==
    [][(maps'.idx = maps.idx + 1 /\ maps'.parsed.k = "Ok") =>
        LET region == RegionOf(maps'.parsed)
            n == Len(maps.mappings)
        IN  IF n > 0 /\ Mergeable(maps.mappings[n], region)
            THEN /\ Len(maps'.mappings) = n
                 /\ SubSeq(maps'.mappings, 1, n - 1) = SubSeq(maps.mappings, 1, n - 1)
                 /\ maps'.mappings[n].start_addr = maps.mappings[n].start_addr
                 /\ maps'.mappings[n].sys_end_addr = region.end
                 /\ maps'.mappings[n].size
                        = Wrap(region.end - maps.mappings[n].start_addr)
                 /\ maps'.mappings[n].name = region.name
            ELSE /\ Len(maps'.mappings) = n + 1
                 /\ SubSeq(maps'.mappings, 1, n) = maps.mappings
                 /\ maps'.mappings[n + 1].start_addr = region.start
                 /\ maps'.mappings[n + 1].sys_end_addr = region.end
                 /\ maps'.mappings[n + 1].size = Wrap(region.end - region.start)
                 /\ maps'.mappings[n + 1].name = region.name
                 /\ maps'.mappings[n + 1].has_exec = region.has_exec]_vars

\* a region that is not executable and the executable one that follows it
\* have been merged into one mapping of both
C31_Witness ==
    /\ maps.idx = 2
    /\ Len(maps.mappings) = 1
    /\ maps.mappings[1].start_addr = 4096
    /\ maps.mappings[1].size = 12288
    /\ maps.mappings[1].has_exec
    /\ ~from_str(maps.lines[1], TRUE).has_exec


\* ---- C32: the mapping of the entry point ----
\* the mappings that hold the entry point of the auxiliary vector
EntryHolders(mappings) ==
    {i \in 1..Len(mappings) :
        /\ maps.entry_point_loc # None
        /\ mappings[i].start_addr <= maps.entry_point_loc[1]
        /\ maps.entry_point_loc[1] < mappings[i].start_addr + mappings[i].size}

\* C32: at the end of the enumeration a mapping that holds the entry
\* point is at index 0 and the others follow in the order in which they
\* were found, none lost and none twice; with no such mapping the order
\* is the one in which they were found.
C32_EntryPointFirst ==
    [][(maps.pc = "lines" /\ maps'.pc = "done") =>
        IF EntryHolders(maps.mappings) = {}
        THEN maps'.mappings = maps.mappings
        ELSE \E i \in EntryHolders(maps.mappings) :
                maps'.mappings = <<maps.mappings[i]>> \o RemoveAt(maps.mappings, i)]_vars

\* three mappings were found, the one of the entry point last, and it has
\* been made the first
C32_Witness ==
    /\ maps.pc = "done"
    /\ maps.entry_point_loc = Some(12288)
    /\ Len(maps.lines) = 3
    /\ Len(maps.mappings) = 3
    /\ from_str(maps.lines[3], TRUE).start_addr = 12288
    /\ maps.mappings[1].start_addr = 12288
    /\ maps.mappings[2].start_addr = from_str(maps.lines[1], TRUE).start_addr
    /\ maps.mappings[3].start_addr = from_str(maps.lines[2], TRUE).start_addr


\* ---- C33: the memory blocks of the threads ----
\* C33: a thread whose stack was captured, the crashing thread too, has
\* the descriptor of its stack among the memory blocks recorded for it.
C33_StackRecordedAsMemoryBlock ==
    (tlist.thread.k = "Thread" /\ tlist.thread.data_size > 0) =>
        \E i \in 1..Len(tlist.thread.pushed) :
            tlist.thread.pushed[i] =
                [start_of_memory_range |-> tlist.thread.start_of_memory_range,
                 data_size |-> tlist.thread.data_size]


\* ---- C34: the pages mapped for a request ----
\* ceil(bytes / PAGE_SIZE)
PagesFor(bytes) ==
    CHOOSE n \in 0..(MaxPages + 2) : n * PAGE_SIZE >= bytes /\ (n - 1) * PAGE_SIZE < bytes

\* the bytes left in the current page, 0 without one
TailLeft(a) == IF a.current_page = None THEN 0 ELSE PAGE_SIZE - a.current_page[1].offset

\* C34: a request that the current page cannot serve maps exactly
\* ceil((size + header) / page size) pages and pages_allocated grows by
\* that number; when the last of them has unused space it becomes the
\* current page; a request no larger than the tail of the current page is
\* served from it and pages_allocated stays.
C34_PagesForRequest ==
    [][(paCalls' = paCalls + 1 /\ paResult' = "Ok") =>
        LET region == regions'[Len(regions')]
            size == region.size
            pages == PagesFor(size + SizeOfPageHeader)
            unused == pages * PAGE_SIZE - (size + SizeOfPageHeader)
        IN  IF pa.current_page # None /\ size <= TailLeft(pa)
            THEN /\ pa'.total_allocated_pages = pa.total_allocated_pages
                 /\ headers' = headers
                 /\ region.ptr = pa.current_page[1].start + pa.current_page[1].offset
                 /\ TailLeft(pa') = TailLeft(pa) - size
            ELSE /\ pa'.total_allocated_pages = pa.total_allocated_pages + pages
                 /\ \E b \in DOMAIN headers' \ DOMAIN headers :
                        /\ DOMAIN headers' = DOMAIN headers \cup {b}
                        /\ headers'[b].num_pages = pages
                        /\ region.ptr = b + SizeOfPageHeader
                        /\ unused > 0 =>
                              pa'.current_page = Some([start |-> b + (pages - 1) * PAGE_SIZE,
                                                       offset |-> PAGE_SIZE - unused])]_vars

\* a request of one page took two pages, and the next request was served
\* from what the second page had left
C34_Witness ==
    /\ paCalls = 2
    /\ Len(regions) = 2
    /\ regions[1].size = PAGE_SIZE
    /\ pa.total_allocated_pages = 2
    /\ regions[2].ptr = regions[1].ptr + PAGE_SIZE
    /\ pa.current_page # None
    /\ pa.current_page[1].offset = SizeOfPageHeader + regions[2].size


\* ---- C35, C38: the stack written for a thread ----
\* C35: the start recorded in the stack descriptor of a thread with a
\* captured stack is the address in the crashed process at which the
\* bytes captured begin: the page of the stack pointer, or the start of
\* the shortened window.
C35_StackStartInProcess ==
    (tlist.thread.k = "Thread" /\ tlist.thread.data_size > 0) =>
        tlist.thread.start_of_memory_range = tlist.thread.stack[1].ptr

\* C38: a stack shortened to max_len bytes starts a multiple of max_len
\* from the start of the captured stack, lies inside the captured range
\* and holds the stack pointer.
C38_WindowHoldsStackPointer ==
    (tlist.thread.k = "Thread" /\ tlist.thread.stack # tlist.thread.captured) =>
        LET window == tlist.thread.stack[1]
            whole == tlist.thread.captured[1]
        IN  /\ (window.ptr - whole.ptr) % window.len = 0
            /\ whole.ptr <= window.ptr
            /\ window.ptr + window.len <= whole.ptr + whole.len
            /\ window.ptr <= tlist.thread.stack_pointer
            /\ tlist.thread.stack_pointer < window.ptr + window.len


\* ---- C36: what Ok from suspend_threads means ----

\* the threads of the dump set that this process traces
AttachedOfSet ==
    {i \in 1..Len(dumper.threads) :
        dumper.threads[i] # None /\ dumper.threads[i][1] \in attached}

\* the call that returned last was suspend_threads and it returned Ok:
\* resume_threads leaves threads_suspended false whenever it returns
SuspendReturnedOk ==
    tr.pc = "idle" /\ tr.result = "Ok" /\ dumper.threads_suspended

\* C36: for every sequence of suspend_threads and resume_threads calls on one
\* dumper, a suspend_threads call after one that returned NoValidThreads
\* included, whenever suspend_threads has returned Ok at least one thread of
\* the dump set is ptrace-attached.
C36_OkMeansAttached ==
    SuspendReturnedOk => AttachedOfSet # {}


\* ---- C37: the indices into the auxv table ----

\* C37: during the dumper's init every index used to write or read the auxv
\* table (a recognised kind read from the file, the Entry and SysInfoEhdr
\* lookups of enumerate_mappings) is below the length the table was resized
\* to, so init never stops with an out-of-bounds access.
C37_AuxvIndexInBounds ==
    /\ ax.index # None => ax.index[1] < Len(ax.auxv)
    /\ ax.result # "panicked"


\* ---- C39: the alignment of what the allocator returns ----

\* C39: every pointer the page allocator returned for a layout satisfies
\* the alignment of that layout, whatever requests of whatever byte sizes
\* were made on the allocator before (byte buffers and buffers of words).
C39_PointersAligned ==
    \A i \in 1..Len(regions) :
        \A layout \in LayoutsOf(regions[i].size) :
            regions[i].ptr % layout.align = 0


\* ---- C40: attach and the last detach as a round trip ----

\* no handler is registered and no attach or detach call is in progress
NothingAttached ==
    /\ alive
    /\ HANDLER_STACK = << >>
    /\ \A t \in Threads : pc[t] = "idle"

\* C40: whatever a thread's alternate stack was before the first attach
\* (disabled, enabled but smaller than MIN_STACK_SIZE, or adequate), after
\* the last detach it is what it was, and all the memory attach mapped for
\* its own stack, the guard page included, is unmapped.
C40_AltStackRoundTrip ==
    NothingAttached =>
        /\ altStack = origStack
        /\ mapped = {}
        /\ guards = {}

============================================================================
